---- MODULE Spec2Model ----
(***************************************************************************)
(* Irongate Penitentiary: the game store (zustand) with its NPC, dialogue  *)
(* and clock systems.  Every store handler is an operator from a store     *)
(* snapshot to the next snapshot: `get()` is the handler's argument (or   *)
(* the running value of a LET chain where the code re-reads the store),    *)
(* `set(...)` is a record update.  Handlers that keep using a snapshot     *)
(* taken at their start (const state = get()) are written exactly so.      *)
(*                                                                         *)
(* Units.  Game time is counted in thousandths of a game minute, NPC frame *)
(* deltas and wait timers in milliseconds, pixels in whole pixels.         *)
(* Fields that only the renderer reads (the player's facing and pixel      *)
(* position, fade progress, the period banner) are not part of the state.  *)
(***************************************************************************)
EXTENDS Integers, Sequences, FiniteSets, TLC

VARIABLES
    NPCS,             \* the static NPC registry (npcData.ts), fixed at start
    player,           \* player.gridPosition / isMoving / isSneaking / isHiding
    currentRoom,      \* currentRoom.id
    transition,       \* room transition (fade out / fade in)
    interaction,      \* UI mode, targeted object, context menu, text box
    inventoryOpen,    \* inventory.isOpen
    npcs,             \* the live actor table
    dialogue,         \* the dialogue session
    playerKnowledge,  \* set of knowledge tokens
    time,             \* clock state
    op                \* history: the store operation that produced this state

vars == <<NPCS, player, currentRoom, transition, interaction, inventoryOpen,
          npcs, dialogue, playerKnowledge, time, op>>

Null == "null"

\* An absent (null) position, and an absent (undefined) number.
NoPosition == [x |-> -1, y |-> -1]

Undefined == -1

Pos(x, y) == [x |-> x, y |-> y]

Abs(n) == IF n < 0 THEN -n ELSE n

Max2(a, b) == IF a >= b THEN a ELSE b

Min2(a, b) == IF a <= b THEN a ELSE b

(***************************************************************************)
(* Rooms (roomData.ts).  Rows are indexed by y+1, columns by x+1.          *)
(***************************************************************************)
W == "wall"
F == "floor"
B == "bed"
K == "desk"
T == "toilet"
S == "sink"
D == "door"
C == "chair"
L == "locker"

cellLayout ==
    << <<W, W, W, W, W, W, W, W, W, W>>,
       <<W, F, F, F, F, F, F, F, F, W>>,
       <<W, B, B, F, F, F, F, T, F, W>>,
       <<W, B, B, F, F, F, F, F, F, W>>,
       <<W, F, F, F, F, F, F, S, F, W>>,
       <<W, K, K, F, F, F, F, F, F, W>>,
       <<W, F, F, F, F, F, F, F, F, W>>,
       <<W, W, W, W, D, D, W, W, W, W>> >>

cellC12Layout ==
    << <<W, W, W, W, W, W, W, W, W, W>>,
       <<W, F, F, F, F, F, F, F, F, W>>,
       <<W, B, B, F, F, F, F, F, F, W>>,
       <<W, B, B, F, F, F, F, T, F, W>>,
       <<W, F, F, F, F, F, F, F, F, W>>,
       <<W, K, K, F, F, F, F, S, F, W>>,
       <<W, F, F, F, F, F, F, F, F, W>>,
       <<W, W, W, W, D, D, W, W, W, W>> >>

corridorLayout ==
    << <<W, W, W, W, W, W, W, W, W, W, W, W, W, W, W, W, W, W, W, W>>,
       <<W, W, W, W, W, W, W, W, W, W, W, W, W, W, W, W, W, W, W, W>>,
       <<W, W, W, W, W, D, W, W, W, W, W, D, W, W, W, W, W, W, W, W>>,
       <<W, F, F, F, F, F, F, F, F, F, F, F, F, F, F, F, F, F, F, W>>,
       <<W, F, F, F, F, F, F, F, F, F, F, F, F, F, F, F, F, F, F, W>>,
       <<W, F, F, F, F, F, F, F, F, F, F, F, F, F, F, F, F, F, F, W>>,
       <<D, D, W, W, W, W, W, W, W, W, D, D, W, W, W, W, W, D, D, W>>,
       <<W, W, W, W, W, W, W, W, W, W, W, W, W, W, W, W, W, W, W, W>> >>

guardStationLayout ==
    << <<W, W, W, W, W, W, W, W, W, W, W, W>>,
       <<W, F, F, F, F, F, F, F, F, F, F, W>>,
       <<W, F, K, K, F, F, F, F, F, F, F, W>>,
       <<W, F, K, K, F, F, F, L, F, F, F, W>>,
       <<W, F, F, C, F, F, F, L, F, F, F, W>>,
       <<W, F, F, F, F, F, F, F, F, F, F, W>>,
       <<W, F, F, F, F, F, F, F, F, F, F, W>>,
       <<W, F, F, F, F, F, F, F, F, F, F, W>>,
       <<W, W, D, D, W, W, W, W, W, W, W, W>>,
       <<W, W, W, W, W, W, W, W, W, W, W, W>> >>

cafeteriaLayout ==
    << <<W, W, W, W, W, W, W, W, W, W, W, W, W, W, W>>,
       <<W, F, F, F, F, F, F, F, F, F, F, F, F, F, W>>,
       <<W, F, F, F, F, F, F, F, F, F, F, F, F, F, W>>,
       <<W, F, F, F, F, F, F, F, F, F, F, F, F, F, W>>,
       <<W, F, F, K, K, F, F, K, K, F, F, K, K, F, W>>,
       <<W, F, F, K, K, F, F, K, K, F, F, K, K, F, W>>,
       <<W, F, F, F, F, F, F, F, F, F, F, F, F, F, W>>,
       <<W, F, F, K, K, F, F, K, K, F, F, K, K, F, W>>,
       <<W, F, F, K, K, F, F, K, K, F, F, K, K, F, W>>,
       <<W, F, F, F, F, F, F, F, F, F, F, F, F, F, W>>,
       <<W, W, W, W, W, D, D, W, W, W, W, W, W, W, W>> >>

yardLayout ==
    << <<W, W, W, W, W, W, W, W, W, W, W, W, W, W, W, W, W, W, W, W>>,
       <<W, F, F, F, F, F, F, F, F, F, F, F, F, F, F, F, F, F, F, W>>,
       <<W, F, F, F, F, F, F, F, F, F, F, F, F, F, F, F, F, F, F, W>>,
       <<W, F, F, F, F, F, F, F, F, F, F, F, F, F, F, F, F, F, F, W>>,
       <<W, F, F, F, F, F, F, F, F, F, F, F, F, F, F, F, F, F, F, W>>,
       <<W, F, F, F, F, F, F, F, F, F, F, F, F, F, F, F, F, F, F, W>>,
       <<W, F, F, F, F, F, F, F, F, F, F, F, F, F, F, F, F, F, F, W>>,
       <<W, F, F, F, F, F, F, F, F, F, F, F, F, F, F, F, F, F, F, W>>,
       <<W, F, F, F, F, F, F, F, F, F, F, F, F, F, F, F, F, F, F, W>>,
       <<W, F, F, F, F, F, F, F, F, F, F, F, F, F, F, F, F, F, F, W>>,
       <<W, F, F, F, F, F, F, F, F, F, F, F, F, F, F, F, F, F, F, W>>,
       <<W, F, F, F, F, F, F, F, F, F, F, F, F, F, F, F, F, F, F, W>>,
       <<W, W, W, W, W, W, W, W, W, D, D, W, W, W, W, W, W, W, W, W>> >>

cellC14 ==
    [id |-> "cell_c14", width |-> 10, height |-> 8, tiles |-> cellLayout,
     startPosition |-> Pos(4, 4),
     exits |-> << [id |-> "cell_door_left", position |-> Pos(4, 7),
                   targetRoom |-> "corridor_b", targetSpawn |-> "from_cell_c14",
                   state |-> "open"],
                  [id |-> "cell_door_right", position |-> Pos(5, 7),
                   targetRoom |-> "corridor_b", targetSpawn |-> "from_cell_c14",
                   state |-> "open"] >>,
     spawnPoints |-> << [id |-> "default", position |-> Pos(4, 4)],
                        [id |-> "from_corridor", position |-> Pos(4, 6)] >>]

cellC12 ==
    [id |-> "cell_c12", width |-> 10, height |-> 8, tiles |-> cellC12Layout,
     startPosition |-> Pos(4, 4),
     exits |-> << [id |-> "cell_door_left", position |-> Pos(4, 7),
                   targetRoom |-> "corridor_b", targetSpawn |-> "from_cell_c12",
                   state |-> "open"],
                  [id |-> "cell_door_right", position |-> Pos(5, 7),
                   targetRoom |-> "corridor_b", targetSpawn |-> "from_cell_c12",
                   state |-> "open"] >>,
     spawnPoints |-> << [id |-> "default", position |-> Pos(4, 4)],
                        [id |-> "from_corridor", position |-> Pos(4, 6)] >>]

corridor ==
    [id |-> "corridor_b", width |-> 20, height |-> 8, tiles |-> corridorLayout,
     startPosition |-> Pos(11, 3),
     exits |-> << [id |-> "cell_c12_door", position |-> Pos(5, 2),
                   targetRoom |-> "cell_c12", targetSpawn |-> "from_corridor",
                   state |-> "open"],
                  [id |-> "cell_c14_door", position |-> Pos(11, 2),
                   targetRoom |-> "cell_c14", targetSpawn |-> "from_corridor",
                   state |-> "open"],
                  [id |-> "cafeteria_door_left", position |-> Pos(0, 6),
                   targetRoom |-> "cafeteria", targetSpawn |-> "from_corridor",
                   state |-> "open"],
                  [id |-> "cafeteria_door_right", position |-> Pos(1, 6),
                   targetRoom |-> "cafeteria", targetSpawn |-> "from_corridor",
                   state |-> "open"],
                  [id |-> "yard_gate_left", position |-> Pos(10, 6),
                   targetRoom |-> "yard", targetSpawn |-> "from_corridor",
                   state |-> "open"],
                  [id |-> "yard_gate_right", position |-> Pos(11, 6),
                   targetRoom |-> "yard", targetSpawn |-> "from_corridor",
                   state |-> "open"],
                  [id |-> "guard_station_door_left", position |-> Pos(17, 6),
                   targetRoom |-> "guard_station_b", targetSpawn |-> "from_corridor",
                   state |-> "open"],
                  [id |-> "guard_station_door_right", position |-> Pos(18, 6),
                   targetRoom |-> "guard_station_b", targetSpawn |-> "from_corridor",
                   state |-> "open"] >>,
     spawnPoints |-> << [id |-> "from_cell_c12", position |-> Pos(5, 3)],
                        [id |-> "from_cell_c14", position |-> Pos(11, 3)],
                        [id |-> "from_guard_station", position |-> Pos(17, 5)],
                        [id |-> "from_cafeteria", position |-> Pos(1, 5)],
                        [id |-> "from_yard", position |-> Pos(10, 5)] >>]

guardStation ==
    [id |-> "guard_station_b", width |-> 12, height |-> 10, tiles |-> guardStationLayout,
     startPosition |-> Pos(2, 7),
     exits |-> << [id |-> "corridor_door_left", position |-> Pos(2, 8),
                   targetRoom |-> "corridor_b", targetSpawn |-> "from_guard_station",
                   state |-> "open"],
                  [id |-> "corridor_door_right", position |-> Pos(3, 8),
                   targetRoom |-> "corridor_b", targetSpawn |-> "from_guard_station",
                   state |-> "open"] >>,
     spawnPoints |-> << [id |-> "from_corridor", position |-> Pos(2, 7)] >>]

cafeteria ==
    [id |-> "cafeteria", width |-> 15, height |-> 11, tiles |-> cafeteriaLayout,
     startPosition |-> Pos(7, 9),
     exits |-> << [id |-> "cafeteria_door_left", position |-> Pos(5, 10),
                   targetRoom |-> "corridor_b", targetSpawn |-> "from_cafeteria",
                   state |-> "open"],
                  [id |-> "cafeteria_door_right", position |-> Pos(6, 10),
                   targetRoom |-> "corridor_b", targetSpawn |-> "from_cafeteria",
                   state |-> "open"] >>,
     spawnPoints |-> << [id |-> "from_corridor", position |-> Pos(5, 9)] >>]

yard ==
    [id |-> "yard", width |-> 20, height |-> 13, tiles |-> yardLayout,
     startPosition |-> Pos(10, 11),
     exits |-> << [id |-> "yard_gate_left", position |-> Pos(9, 12),
                   targetRoom |-> "corridor_b", targetSpawn |-> "from_yard",
                   state |-> "open"],
                  [id |-> "yard_gate_right", position |-> Pos(10, 12),
                   targetRoom |-> "corridor_b", targetSpawn |-> "from_yard",
                   state |-> "open"] >>,
     spawnPoints |-> << [id |-> "from_corridor", position |-> Pos(9, 11)] >>]

ROOMS ==
    [r \in {"cell_c12", "cell_c14", "corridor_b", "guard_station_b",
            "cafeteria", "yard"} |->
        CASE r = "cell_c12" -> cellC12
          [] r = "cell_c14" -> cellC14
          [] r = "corridor_b" -> corridor
          [] r = "guard_station_b" -> guardStation
          [] r = "cafeteria" -> cafeteria
          [] OTHER -> yard]

RoomIds == DOMAIN ROOMS

TileAt(room, p) == room.tiles[p.y + 1][p.x + 1]

InBounds(room, p) ==
    p.x >= 0 /\ p.x < room.width /\ p.y >= 0 /\ p.y < room.height

\* constants.ts: floor and door tiles are the tiles a player may step on
\* (every exit lies on a door tile).
isTileWalkable(tileType) == tileType \in {F, D}

(***************************************************************************)
(* Game clock (timeSystem.ts).                                             *)
(***************************************************************************)
Period(id, sh, sm, eh, em) ==
    [id |-> id, startHour |-> sh, startMinute |-> sm,
     endHour |-> eh, endMinute |-> em]

TIME_PERIODS ==
    << Period("early_morning", 6, 0, 7, 0),
       Period("breakfast", 7, 0, 8, 0),
       Period("morning_work", 8, 0, 12, 0),
       Period("lunch", 12, 0, 13, 0),
       Period("afternoon_work", 13, 0, 16, 0),
       Period("recreation", 16, 0, 18, 0),
       Period("dinner", 18, 0, 20, 0),
       Period("evening_free", 20, 0, 22, 0),
       Period("lockdown", 22, 0, 6, 0) >>

PeriodIds == {TIME_PERIODS[i].id : i \in DOMAIN TIME_PERIODS}

timeToMinutes(hour, minute) == hour * 60 + minute

\* Does the period's window contain the minute-of-day (one loop iteration of
\* getPeriodForTime)?
PeriodMatches(period, currentMinutes) ==
    LET startMinutes == timeToMinutes(period.startHour, period.startMinute)
        endMinutes == timeToMinutes(period.endHour, period.endMinute)
    IN IF endMinutes <= startMinutes
       THEN currentMinutes >= startMinutes \/ currentMinutes < endMinutes
       ELSE currentMinutes >= startMinutes /\ currentMinutes < endMinutes

getPeriodForTime(hour, minute) ==
    LET currentMinutes == timeToMinutes(hour, minute)
        hits == {i \in DOMAIN TIME_PERIODS :
                    PeriodMatches(TIME_PERIODS[i], currentMinutes)}
    IN IF hits = {} THEN "lockdown"
       ELSE TIME_PERIODS[CHOOSE i \in hits : \A j \in hits : i <= j].id

\* getPeriod(periodId): the first period with that id (PeriodIds are the
\* ids for which it is defined).
getPeriod(periodId) ==
    LET hits == {i \in DOMAIN TIME_PERIODS : TIME_PERIODS[i].id = periodId}
    IN TIME_PERIODS[CHOOSE i \in hits : \A j \in hits : i <= j]

\* Thousandths of a game minute in one game minute.
MilliPerMinute == 1000

\* timeScale 0.333 game minutes per real second, in thousandths.
NormalTimeScale == 333

\* timeScale while waiting: 100 game minutes per real second, in thousandths.
WaitTimeScale == 100000

\* A faulty variant: the day is not advanced when the hour passes midnight.
advanceTimeWithinDay(currentTime, realDeltaMs, timeScale) ==
    LET oldPeriod == getPeriodForTime(currentTime.hour, currentTime.minute)
        gameMinutesElapsed == (realDeltaMs * timeScale) \div 1000
        rawMinute == currentTime.minute * MilliPerMinute + gameMinutesElapsed
        rawHour == currentTime.hour + (rawMinute \div (60 * MilliPerMinute))
        newTime == [day |-> currentTime.day,
                    hour |-> rawHour % 24,
                    minute |-> (rawMinute % (60 * MilliPerMinute))
                                  \div MilliPerMinute,
                    totalMinutes |-> currentTime.totalMinutes
                                        + gameMinutesElapsed]
        newPeriod == getPeriodForTime(newTime.hour, newTime.minute)
    IN [newTime |-> newTime,
        periodChanged |-> (oldPeriod # newPeriod),
        newPeriod |-> newPeriod]

\* advanceTime: realDeltaMs in milliseconds, timeScale in thousandths of a
\* game minute per real second.  minute and hour are whole numbers (the
\* floored values of the previous call); totalMinutes keeps the fraction.
advanceTime(currentTime, realDeltaMs, timeScale) ==
    LET oldPeriod == getPeriodForTime(currentTime.hour, currentTime.minute)
        gameMinutesElapsed == (realDeltaMs * timeScale) \div 1000
        newTotalMinutes == currentTime.totalMinutes + gameMinutesElapsed
        rawMinute == currentTime.minute * MilliPerMinute + gameMinutesElapsed
        newMinute == rawMinute % (60 * MilliPerMinute)
        rawHour == currentTime.hour + (rawMinute \div (60 * MilliPerMinute))
        newHour == rawHour % 24
        newDay == currentTime.day + (rawHour \div 24)
        finalHour == Max2(0, Min2(23, newHour))
        finalMinute == Max2(0, Min2(59, newMinute \div MilliPerMinute))
        newTime == [day |-> newDay, hour |-> finalHour, minute |-> finalMinute,
                    totalMinutes |-> newTotalMinutes]
        newPeriod == getPeriodForTime(newTime.hour, newTime.minute)
    IN [newTime |-> newTime,
        periodChanged |-> (oldPeriod # newPeriod),
        newPeriod |-> newPeriod]

createInitialTime == [day |-> 1, hour |-> 6, minute |-> 0, totalMinutes |-> 0]

\* Time-locked doors of the rooms above (TIME_LOCKED_DOORS).
isDoorOpenBySchedule(exitId, currentPeriod) ==
    IF exitId \in {"cell_c14_door", "cell_c12_door"}
    THEN currentPeriod # "lockdown"
    ELSE IF exitId = "cafeteria_door"
    THEN currentPeriod \in {"breakfast", "lunch", "dinner"}
    ELSE IF exitId = "yard_gate"
    THEN currentPeriod = "recreation"
    ELSE TRUE

(***************************************************************************)
(* Dialogue trees (dialogueData.ts).                                       *)
(***************************************************************************)
Knowledge(v) == [type |-> "knowledge", value |-> v, flagName |-> Null]

Relationship(v) == [type |-> "relationship", value |-> v, flagName |-> Null]

Flag(n) == [type |-> "flag", value |-> Null, flagName |-> n]

Resp(next, effects) == [nextNode |-> next, effects |-> effects]

Node(responses, effects) == [responses |-> responses, effects |-> effects]

oldTimerDialogue ==
    [id |-> "old_timer_main",
     startNode |-> "greeting_first",
     nodes |->
       [greeting_first |->
            Node(<< Resp("escape_interest", <<>>),
                    Resp("backstory", <<>>),
                    Resp("end_cold", <<Relationship(-5)>>) >>, <<>>),
        greeting_return |->
            Node(<< Resp("guard_info", <<>>),
                    Resp("escape_info", <<>>),
                    Resp("end_friendly", <<>>) >>, <<>>),
        escape_interest |->
            Node(<< Resp("escape_hints", <<>>),
                    Resp("end_neutral", <<>>) >>, <<>>),
        backstory |->
            Node(<< Resp("escape_hints", <<>>),
                    Resp("end_friendly", <<Relationship(5)>>) >>, <<>>),
        escape_hints |->
            Node(<< Resp("end_friendly", <<>>),
                    Resp("more_hints", <<>>) >>,
                 << Knowledge("vent_system_hint"), Flag("told_about_vents") >>),
        more_hints |->
            Node(<< Resp("guard_info", <<>>),
                    Resp("end_grateful", <<>>) >>,
                 << Knowledge("guard_station_tools") >>),
        escape_info |->
            Node(<< Resp("vent_access", <<>>),
                    Resp("end_neutral", <<>>) >>, <<>>),
        vent_access |->
            Node(<< Resp("more_hints", <<>>),
                    Resp("end_grateful", <<>>) >>,
                 << Knowledge("vent_access_method"), Flag("told_about_vents") >>),
        guard_info |->
            Node(<< Resp("patrol_timing", <<>>),
                    Resp("end_friendly", <<>>) >>,
                 << Knowledge("guard_martinez_info"),
                    Flag("told_about_guard_schedule") >>),
        patrol_timing |->
            Node(<< Resp("end_grateful", <<>>),
                    Resp("end_friendly", <<>>) >>,
                 << Knowledge("guard_patrol_timing") >>),
        end_grateful |-> Node(<<>>, << Relationship(10) >>),
        end_friendly |-> Node(<<>>, << Relationship(5) >>),
        end_neutral |-> Node(<<>>, <<>>),
        end_cold |-> Node(<<>>, <<>>)]]

guardGenericDialogue ==
    [id |-> "guard_generic",
     startNode |-> "confrontation_restricted",
     nodes |->
       [confrontation_restricted |->
            Node(<< Resp("excuse_lost", <<>>),
                    Resp("excuse_bathroom", <<>>),
                    Resp("comply", <<>>) >>, <<>>),
        excuse_lost |-> Node(<< Resp("warning", <<>>) >>, <<>>),
        excuse_bathroom |-> Node(<< Resp("warning", <<>>) >>, <<>>),
        comply |-> Node(<<>>, <<>>),
        warning |-> Node(<< Resp("end_warning", <<>>) >>, <<>>),
        end_warning |-> Node(<<>>, <<>>)]]

\* A tree no shipped actor names, of the shape the DialogueResponse type
\* allows (nextNode: string | null, null = end dialogue): a node with two
\* responses, the first naming no next node, the second leading to a node
\* without responses.
twoResponseDialogue ==
    [id |-> "two_response_case",
     startNode |-> "choice",
     nodes |->
       [choice |-> Node(<< Resp(Null, <<>>), Resp("last", <<>>) >>, <<>>),
        last |-> Node(<<>>, <<>>)]]

\* A tree no shipped actor names, of the shape the DialogueTree type allows
\* (nextNode is a free string): the first response of its start node names
\* a node the tree does not have, the second leads on and back.
danglingResponseDialogue ==
    [id |-> "dangling_response_case",
     startNode |-> "choice",
     nodes |->
       [choice |-> Node(<< Resp("missing", <<>>), Resp("again", <<>>) >>, <<>>),
        again |-> Node(<< Resp("choice", <<>>) >>, <<>>)]]

DIALOGUE_TREES ==
    [t \in {"old_timer_main", "guard_generic", "two_response_case",
            "dangling_response_case"} |->
        IF t = "old_timer_main" THEN oldTimerDialogue
        ELSE IF t = "guard_generic" THEN guardGenericDialogue
        ELSE IF t = "two_response_case" THEN twoResponseDialogue
        ELSE danglingResponseDialogue]

\* getDialogueTree(treeId) is defined (not undefined) for these ids.
HasDialogueTree(treeId) == treeId \in DOMAIN DIALOGUE_TREES

getDialogueTree(treeId) == DIALOGUE_TREES[treeId]

(***************************************************************************)
(* NPC registry (npcData.ts).                                              *)
(***************************************************************************)
\* Pixels per tile (constants.ts).
TILE_SIZE == 32

gridToPixel(gridPos) == Pos(gridPos.x * TILE_SIZE, gridPos.y * TILE_SIZE)

Entry(behavior, room) == [behavior |-> behavior, room |-> room]

PatrolPoint(col, row, wait, direction) ==
    [room |-> "corridor_b", col |-> col, row |-> row, wait |-> wait,
     direction |-> direction]

guardMartinez ==
    [id |-> "guard_martinez",
     type |-> "guard",
     currentRoom |-> "guard_station_b",
     position |-> Pos(5, 5),
     direction |-> "down",
     patrolRoute |-> << PatrolPoint(2, 4, 2, "right"),
                        PatrolPoint(17, 4, 2, "left") >>,
     currentPatrolIndex |-> 0,
     movementSpeed |-> 2,
     isMoving |-> FALSE,
     targetPosition |-> NoPosition,
     pixelPosition |-> gridToPixel(Pos(5, 5)),
     waitTimer |-> Undefined,
     schedule |->
       [early_morning |-> Entry("idle", "guard_station_b"),
        breakfast |-> Entry("patrol", "corridor_b"),
        morning_work |-> Entry("patrol", "corridor_b"),
        lunch |-> Entry("patrol", "corridor_b"),
        afternoon_work |-> Entry("patrol", "corridor_b"),
        recreation |-> Entry("idle", "guard_station_b"),
        dinner |-> Entry("idle", "guard_station_b"),
        evening_free |-> Entry("idle", "guard_station_b"),
        lockdown |-> Entry("idle", "guard_station_b")],
     currentBehavior |-> "idle",
     visionRange |-> 5,
     visionAngle |-> 90,
     dialogueTree |-> "guard_generic",
     relationshipLevel |-> 0,
     talkedTo |-> FALSE,
     isConscious |-> TRUE,
     isAlive |-> TRUE,
     flags |-> <<>>]

oldTimer ==
    [id |-> "old_timer",
     type |-> "inmate",
     currentRoom |-> "cell_c12",
     position |-> Pos(2, 3),
     direction |-> "down",
     patrolRoute |-> <<>>,
     currentPatrolIndex |-> 0,
     movementSpeed |-> 0,
     isMoving |-> FALSE,
     targetPosition |-> NoPosition,
     pixelPosition |-> gridToPixel(Pos(2, 3)),
     waitTimer |-> Undefined,
     schedule |->
       [early_morning |-> Entry("idle", "cell_c12"),
        breakfast |-> Entry("idle", "cafeteria"),
        morning_work |-> Entry("idle", "yard"),
        lunch |-> Entry("idle", "cafeteria"),
        afternoon_work |-> Entry("idle", "yard"),
        recreation |-> Entry("idle", "yard"),
        dinner |-> Entry("idle", "cafeteria"),
        evening_free |-> Entry("idle", "cell_c12"),
        lockdown |-> Entry("idle", "cell_c12")],
     currentBehavior |-> "idle",
     visionRange |-> 0,
     visionAngle |-> 0,
     dialogueTree |-> "old_timer_main",
     relationshipLevel |-> 0,
     talkedTo |-> FALSE,
     isConscious |-> TRUE,
     isAlive |-> TRUE,
     flags |-> [told_about_tunnel |-> FALSE,
                told_about_guard_schedule |-> FALSE,
                told_about_vents |-> FALSE]]

\* Object.keys order of the registry.
NpcOrder == << "guard_martinez", "old_timer" >>

NpcIds == {NpcOrder[i] : i \in DOMAIN NpcOrder}

ShippedNPCS ==
    [n \in NpcIds |-> IF n = "guard_martinez" THEN guardMartinez ELSE oldTimer]

getNPCsInRoom(registry, roomId) ==
    {n \in DOMAIN registry : registry[n].currentRoom = roomId}

\* Array.find over Object.values: the first id, in registry order, that
\* satisfies the test; Null when there is none.
FirstNpc(Test(_)) ==
    LET hits == {i \in DOMAIN NpcOrder : Test(NpcOrder[i])}
    IN IF hits = {} THEN Null
       ELSE NpcOrder[CHOOSE i \in hits : \A j \in hits : i <= j]

getNPCAdjacentToPosition(registry, roomId, position) ==
    LET Near(n) ==
          /\ n \in getNPCsInRoom(registry, roomId)
          /\ LET dx == Abs(registry[n].position.x - position.x)
                 dy == Abs(registry[n].position.y - position.y)
             IN (dx = 1 /\ dy = 0) \/ (dx = 0 /\ dy = 1)
    IN FirstNpc(Near)

(***************************************************************************)
(* NPC systems (npcSystems.ts).                                            *)
(***************************************************************************)
\* Merge of a partial update into a record ({ ...npc, ...changes }).
Merge(rec, changes) ==
    [k \in DOMAIN rec |-> IF k \in DOMAIN changes THEN changes[k] ELSE rec[k]]

NoChanges == [nothing \in {} |-> Null]

getDirectionToTarget(from, to) ==
    LET dx == to.x - from.x
        dy == to.y - from.y
    IN IF Abs(dx) > Abs(dy)
       THEN (IF dx > 0 THEN "right" ELSE "left")
       ELSE (IF dy > 0 THEN "down" ELSE "up")

\* Math.sqrt rounded down; exact on the axis-aligned legs of every route.
ISqrt(dx, dy) ==
    IF dy = 0 THEN Abs(dx)
    ELSE IF dx = 0 THEN Abs(dy)
    ELSE CHOOSE r \in 0..(Abs(dx) + Abs(dy)) :
            r * r <= dx * dx + dy * dy /\ (r + 1) * (r + 1) > dx * dx + dy * dy

\* Faulty variant of updatePatrol: an actor at rest starts for the next
\* waypoint at once, whatever its waitTimer.
updatePatrolWithoutWait(npc, deltaMs) ==
    IF npc.currentBehavior # "patrol" \/ Len(npc.patrolRoute) = 0
    THEN NoChanges
    ELSE
    LET currentPoint == npc.patrolRoute[npc.currentPatrolIndex + 1] IN
    IF ~npc.isMoving
    THEN LET nextIndex == (npc.currentPatrolIndex + 1) % Len(npc.patrolRoute)
             nextPoint == npc.patrolRoute[nextIndex + 1]
         IN [isMoving |-> TRUE,
             targetPosition |-> Pos(nextPoint.col, nextPoint.row),
             currentPatrolIndex |-> nextIndex,
             waitTimer |-> 0,
             direction |->
                getDirectionToTarget(npc.position,
                                     Pos(nextPoint.col, nextPoint.row))]
    ELSE IF npc.targetPosition # NoPosition
    THEN LET targetPixel == Pos(npc.targetPosition.x * TILE_SIZE,
                                npc.targetPosition.y * TILE_SIZE)
             speed == npc.movementSpeed * TILE_SIZE
             distance == (speed * deltaMs) \div 1000
             dx == targetPixel.x - npc.pixelPosition.x
             dy == targetPixel.y - npc.pixelPosition.y
         IN IF dx * dx + dy * dy <= distance * distance
            THEN [position |-> npc.targetPosition,
                  pixelPosition |-> targetPixel,
                  isMoving |-> FALSE,
                  targetPosition |-> NoPosition,
                  direction |-> currentPoint.direction]
            ELSE LET distToTarget == ISqrt(dx, dy)
                     newPixelPos ==
                        Pos(npc.pixelPosition.x + (dx * distance) \div distToTarget,
                            npc.pixelPosition.y + (dy * distance) \div distToTarget)
                     centerX == newPixelPos.x + TILE_SIZE \div 2
                     centerY == newPixelPos.y + TILE_SIZE \div 2
                 IN [pixelPosition |-> newPixelPos,
                     position |-> Pos(centerX \div TILE_SIZE,
                                      centerY \div TILE_SIZE)]
    ELSE NoChanges

\* Faulty variant of updatePatrol: a move is started without a target.
updatePatrolWithoutTarget(npc, deltaMs) ==
    IF npc.currentBehavior # "patrol" \/ Len(npc.patrolRoute) = 0
    THEN NoChanges
    ELSE IF ~npc.isMoving THEN [isMoving |-> TRUE, waitTimer |-> 0]
    ELSE NoChanges

\* Faulty variant of updatePatrol: the index does not advance round the
\* route, the next waypoint is always the first.
updatePatrolToFirstPoint(npc, deltaMs) ==
    IF npc.currentBehavior # "patrol" \/ Len(npc.patrolRoute) = 0
    THEN NoChanges
    ELSE
    LET currentPoint == npc.patrolRoute[npc.currentPatrolIndex + 1] IN
    IF ~npc.isMoving
    THEN LET waitTimer == IF npc.waitTimer = Undefined THEN 0 ELSE npc.waitTimer
             waitDuration == currentPoint.wait * 1000
         IN IF waitTimer < waitDuration
            THEN [waitTimer |-> waitTimer + deltaMs]
            ELSE LET nextIndex == 0
                     nextPoint == npc.patrolRoute[nextIndex + 1]
                 IN [isMoving |-> TRUE,
                     targetPosition |-> Pos(nextPoint.col, nextPoint.row),
                     currentPatrolIndex |-> nextIndex,
                     waitTimer |-> 0,
                     direction |->
                        getDirectionToTarget(npc.position,
                                             Pos(nextPoint.col, nextPoint.row))]
    ELSE IF npc.targetPosition # NoPosition
    THEN LET targetPixel == Pos(npc.targetPosition.x * TILE_SIZE,
                                npc.targetPosition.y * TILE_SIZE)
             speed == npc.movementSpeed * TILE_SIZE
             distance == (speed * deltaMs) \div 1000
             dx == targetPixel.x - npc.pixelPosition.x
             dy == targetPixel.y - npc.pixelPosition.y
         IN IF dx * dx + dy * dy <= distance * distance
            THEN [position |-> npc.targetPosition,
                  pixelPosition |-> targetPixel,
                  isMoving |-> FALSE,
                  targetPosition |-> NoPosition,
                  direction |-> currentPoint.direction]
            ELSE LET distToTarget == ISqrt(dx, dy)
                     newPixelPos ==
                        Pos(npc.pixelPosition.x + (dx * distance) \div distToTarget,
                            npc.pixelPosition.y + (dy * distance) \div distToTarget)
                     centerX == newPixelPos.x + TILE_SIZE \div 2
                     centerY == newPixelPos.y + TILE_SIZE \div 2
                 IN [pixelPosition |-> newPixelPos,
                     position |-> Pos(centerX \div TILE_SIZE,
                                      centerY \div TILE_SIZE)]
    ELSE NoChanges

updatePatrol(npc, deltaMs) ==
    IF npc.currentBehavior # "patrol" \/ Len(npc.patrolRoute) = 0
    THEN NoChanges
    ELSE
    LET currentPoint == npc.patrolRoute[npc.currentPatrolIndex + 1] IN
    IF ~npc.isMoving
    THEN LET waitTimer == IF npc.waitTimer = Undefined THEN 0 ELSE npc.waitTimer
             waitDuration == currentPoint.wait * 1000
         IN IF waitTimer < waitDuration
            THEN [waitTimer |-> waitTimer + deltaMs]
            ELSE LET nextIndex ==
                       (npc.currentPatrolIndex + 1) % Len(npc.patrolRoute)
                     nextPoint == npc.patrolRoute[nextIndex + 1]
                 IN [isMoving |-> TRUE,
                     targetPosition |-> Pos(nextPoint.col, nextPoint.row),
                     currentPatrolIndex |-> nextIndex,
                     waitTimer |-> 0,
                     direction |->
                        getDirectionToTarget(npc.position,
                                             Pos(nextPoint.col, nextPoint.row))]
    ELSE IF npc.targetPosition # NoPosition
    THEN LET targetPixel == Pos(npc.targetPosition.x * TILE_SIZE,
                                npc.targetPosition.y * TILE_SIZE)
             speed == npc.movementSpeed * TILE_SIZE
             distance == (speed * deltaMs) \div 1000
             dx == targetPixel.x - npc.pixelPosition.x
             dy == targetPixel.y - npc.pixelPosition.y
         IN IF dx * dx + dy * dy <= distance * distance
            THEN [position |-> npc.targetPosition,
                  pixelPosition |-> targetPixel,
                  isMoving |-> FALSE,
                  targetPosition |-> NoPosition,
                  direction |-> currentPoint.direction]
            ELSE LET distToTarget == ISqrt(dx, dy)
                     newPixelPos ==
                        Pos(npc.pixelPosition.x + (dx * distance) \div distToTarget,
                            npc.pixelPosition.y + (dy * distance) \div distToTarget)
                     centerX == newPixelPos.x + TILE_SIZE \div 2
                     centerY == newPixelPos.y + TILE_SIZE \div 2
                 IN [pixelPosition |-> newPixelPos,
                     position |-> Pos(centerX \div TILE_SIZE,
                                      centerY \div TILE_SIZE)]
    ELSE NoChanges

\* Math.round(from + d * i / distance) for integers: floor(x + 1/2).
RoundDiv(num, den) == (2 * num + den) \div (2 * den)

\* Faulty variant of hasLineOfSight: only the two end cells are looked at.
hasLineOfSightEndsOnly(from, to, room) ==
    /\ InBounds(room, from) /\ TileAt(room, from) # W
    /\ InBounds(room, to) /\ TileAt(room, to) # W

hasLineOfSight(from, to, room) ==
    LET dx == to.x - from.x
        dy == to.y - from.y
        distance == Max2(Abs(dx), Abs(dy))
    IN \A i \in 0..distance :
          LET x == IF distance = 0 THEN from.x
                   ELSE from.x + RoundDiv(dx * i, distance)
              y == IF distance = 0 THEN from.y
                   ELSE from.y + RoundDiv(dy * i, distance)
          IN /\ InBounds(room, Pos(x, y))
             /\ TileAt(room, Pos(x, y)) # W

\* Faulty variant of WithinHalfCone: the actor sees all round.
WithinHalfConeAllRound(direction, dx, dy) == TRUE

\* angleDiff <= visionAngle / 2 for the shipped 90-degree cone, by facing.
\* angleDiff is |atan2(dy, dx) - guardAngle|, replaced by 360 - angleDiff
\* when above 180; facing up (270) that difference is negative for every
\* target above and to the left, which therefore passes the test.
WithinHalfCone(direction, dx, dy) ==
    CASE direction = "right" -> dx > 0 /\ Abs(dy) <= dx
      [] direction = "down" -> dy > 0 /\ Abs(dx) <= dy
      [] direction = "left" -> dx < 0 /\ Abs(dy) <= -dx
      [] OTHER -> dy < 0 /\ dx <= -dy

isPlayerInVisionCone(npc, playerPos, room) ==
    LET dx == playerPos.x - npc.position.x
        dy == playerPos.y - npc.position.y
    IN IF npc.visionRange = 0 THEN FALSE
       ELSE IF dx * dx + dy * dy > npc.visionRange * npc.visionRange THEN FALSE
       ELSE IF dx = 0 /\ dy = 0 THEN TRUE
       ELSE IF ~WithinHalfCone(npc.direction, dx, dy) THEN FALSE
       ELSE hasLineOfSight(npc.position, playerPos, room)

\* Detection levels are counted in ten-thousandths: the level 1.0.
DetectionOne == 10000

\* detection *= 0.6, in tenths.
SneakTenths == 6

\* The 50% detection threshold.
ReactionThreshold == 5000

\* The largest r + k * step, k a digit, whose square is at most n.
SqrtDigit(n, r, step) ==
    r + step * (CHOOSE k \in 0..9 :
                   /\ (r + k * step) * (r + k * step) <= n
                   /\ k = 9 \/ (r + (k + 1) * step) * (r + (k + 1) * step) > n)

\* Math.sqrt(d2) in thousandths of a tile, rounded down.
SqrtMilli(d2) ==
    LET n == d2 * 1000000
        whole == CHOOSE r \in 0..d2 : r * r <= d2 /\ (r + 1) * (r + 1) > d2
    IN SqrtDigit(n, SqrtDigit(n, SqrtDigit(n, 1000 * whole, 100), 10), 1)

\* Faulty variant of calculateDetectionLevel: no distance falloff.
calculateDetectionLevelAtAnyDistance(npc, playerPos, playerSneaking, room) ==
    IF ~isPlayerInVisionCone(npc, playerPos, room) THEN 0
    ELSE
    LET multiplier == IF playerSneaking THEN SneakTenths ELSE 10
        dx == playerPos.x - npc.position.x
        dy == playerPos.y - npc.position.y
        distance == SqrtMilli(dx * dx + dy * dy)
        distanceFactor == 1000
        detection == multiplier * distanceFactor
    IN Max2(0, Min2(DetectionOne, detection))

\* Faulty variant of calculateDetectionLevel: sneaking halves the level.
calculateDetectionLevelHalved(npc, playerPos, playerSneaking, room) ==
    IF ~isPlayerInVisionCone(npc, playerPos, room) THEN 0
    ELSE
    LET multiplier == IF playerSneaking THEN 5 ELSE 10
        dx == playerPos.x - npc.position.x
        dy == playerPos.y - npc.position.y
        distance == SqrtMilli(dx * dx + dy * dy)
        distanceFactor == (npc.visionRange * 1000 - distance) \div npc.visionRange
        detection == multiplier * distanceFactor
    IN Max2(0, Min2(DetectionOne, detection))

\* The distance is in thousandths of a tile, the distance factor in
\* thousandths, the multiplier in tenths.
calculateDetectionLevel(npc, playerPos, playerSneaking, room) ==
    IF ~isPlayerInVisionCone(npc, playerPos, room) THEN 0
    ELSE
    LET multiplier == IF playerSneaking THEN SneakTenths ELSE 10
        dx == playerPos.x - npc.position.x
        dy == playerPos.y - npc.position.y
        distance == SqrtMilli(dx * dx + dy * dy)
        distanceFactor == (npc.visionRange * 1000 - distance) \div npc.visionRange
        detection == multiplier * distanceFactor
    IN Max2(0, Min2(DetectionOne, detection))

\* Faulty variant of shouldReactToPlayer: actors of every kind react.
shouldReactToPlayerOfAnyKind(npc, detectionLevel) ==
    detectionLevel > ReactionThreshold

shouldReactToPlayer(npc, detectionLevel) ==
    IF npc.type = "guard"
    THEN detectionLevel > ReactionThreshold
    ELSE FALSE

isNPCAdjacentToPlayer(npc, playerPos) ==
    LET dx == Abs(npc.position.x - playerPos.x)
        dy == Abs(npc.position.y - playerPos.y)
    IN (dx = 1 /\ dy = 0) \/ (dx = 0 /\ dy = 1)

\* Faulty variant of canTalkToNPC: the adjacency test is left out.
canTalkToNPCAtAnyDistance(npc, playerPos) ==
    IF ~npc.isConscious \/ ~npc.isAlive THEN FALSE
    ELSE IF npc.dialogueTree = Null THEN FALSE
    ELSE npc.currentBehavior # "chase"

canTalkToNPC(npc, playerPos) ==
    IF ~npc.isConscious \/ ~npc.isAlive THEN FALSE
    ELSE IF npc.dialogueTree = Null THEN FALSE
    ELSE IF npc.currentBehavior = "chase" THEN FALSE
    ELSE isNPCAdjacentToPlayer(npc, playerPos)

getSpawnPositionForRoom(roomId) ==
    CASE roomId = "cell_c12" -> Pos(2, 3)
      [] roomId = "cell_c14" -> Pos(4, 4)
      [] roomId = "corridor_b" -> Pos(10, 4)
      [] roomId = "guard_station_b" -> Pos(5, 5)
      [] roomId = "cafeteria" -> Pos(7, 5)
      [] roomId = "yard" -> Pos(10, 8)
      [] OTHER -> Pos(5, 5)

\* Faulty variant of updateNPCSchedule: the behaviour changes only together
\* with the room.
updateNPCScheduleBehaviorWhenMoved(npc, currentPeriod, playerCurrentRoom) ==
    IF currentPeriod \notin DOMAIN npc.schedule THEN NoChanges
    ELSE
    LET scheduleEntry == npc.schedule[currentPeriod]
        newPosition == getSpawnPositionForRoom(scheduleEntry.room)
        blocked ==
            /\ scheduleEntry.room # Null
            /\ scheduleEntry.room # npc.currentRoom
            /\ (npc.currentRoom = playerCurrentRoom
                  \/ scheduleEntry.room = playerCurrentRoom)
        behaviorChange ==
            IF scheduleEntry.behavior # npc.currentBehavior /\ ~blocked
            THEN [currentBehavior |-> scheduleEntry.behavior]
            ELSE NoChanges
        roomChange ==
            IF /\ scheduleEntry.room # Null
               /\ scheduleEntry.room # npc.currentRoom
               /\ npc.currentRoom # playerCurrentRoom
               /\ scheduleEntry.room # playerCurrentRoom
            THEN [currentRoom |-> scheduleEntry.room,
                  position |-> newPosition,
                  pixelPosition |-> Pos(newPosition.x * TILE_SIZE,
                                        newPosition.y * TILE_SIZE),
                  isMoving |-> FALSE,
                  targetPosition |-> NoPosition]
            ELSE NoChanges
    IN [k \in DOMAIN behaviorChange \cup DOMAIN roomChange |->
          IF k \in DOMAIN roomChange THEN roomChange[k] ELSE behaviorChange[k]]

\* Faulty variant of updateNPCSchedule: the actor is moved to the scheduled
\* room wherever the player is.
updateNPCScheduleInSight(npc, currentPeriod, playerCurrentRoom) ==
    IF currentPeriod \notin DOMAIN npc.schedule THEN NoChanges
    ELSE IF npc.schedule[currentPeriod].room = npc.currentRoom THEN NoChanges
    ELSE [currentRoom |-> npc.schedule[currentPeriod].room,
          position |-> getSpawnPositionForRoom(npc.schedule[currentPeriod].room)]

updateNPCSchedule(npc, currentPeriod, playerCurrentRoom) ==
    IF currentPeriod \notin DOMAIN npc.schedule THEN NoChanges
    ELSE
    LET scheduleEntry == npc.schedule[currentPeriod]
        behaviorChange ==
            IF scheduleEntry.behavior # npc.currentBehavior
            THEN [currentBehavior |-> scheduleEntry.behavior]
            ELSE NoChanges
        newPosition == getSpawnPositionForRoom(scheduleEntry.room)
        roomChange ==
            IF /\ scheduleEntry.room # Null
               /\ scheduleEntry.room # npc.currentRoom
               /\ npc.currentRoom # playerCurrentRoom
               /\ scheduleEntry.room # playerCurrentRoom
            THEN [currentRoom |-> scheduleEntry.room,
                  position |-> newPosition,
                  pixelPosition |-> Pos(newPosition.x * TILE_SIZE,
                                        newPosition.y * TILE_SIZE),
                  isMoving |-> FALSE,
                  targetPosition |-> NoPosition]
            ELSE NoChanges
    IN [k \in DOMAIN behaviorChange \cup DOMAIN roomChange |->
          IF k \in DOMAIN roomChange THEN roomChange[k] ELSE behaviorChange[k]]

(***************************************************************************)
(* Interactive objects (interactiveObjects.ts) and proximity detection     *)
(* (interaction.ts).                                                       *)
(***************************************************************************)
Object(id, roomId, positions, actions) ==
    [id |-> id, roomId |-> roomId, positions |-> positions, actions |-> actions]

INTERACTIVE_OBJECTS ==
    << Object("cell_c14_bed", "cell_c14",
              <<Pos(1, 2), Pos(2, 2), Pos(1, 3), Pos(2, 3)>>,
              <<"examine", "search", "use">>),
       Object("cell_c14_desk", "cell_c14", <<Pos(1, 5), Pos(2, 5)>>,
              <<"examine", "search">>),
       Object("cell_c14_toilet", "cell_c14", <<Pos(7, 2)>>, <<"examine", "use">>),
       Object("cell_c14_sink", "cell_c14", <<Pos(7, 4)>>, <<"examine", "use">>),
       Object("cell_c14_door", "cell_c14", <<Pos(4, 7), Pos(5, 7)>>, <<"examine">>),
       Object("cell_c14_vent_cover", "cell_c14", <<Pos(4, 0)>>, <<"examine">>),
       Object("corridor_cell_C-11_door", "corridor_b", <<Pos(2, 2)>>, <<"examine">>),
       Object("corridor_cell_c12_door", "corridor_b", <<Pos(5, 2)>>, <<"examine">>),
       Object("corridor_cell_C-13_door", "corridor_b", <<Pos(8, 2)>>, <<"examine">>),
       Object("corridor_cell_c14_door", "corridor_b", <<Pos(11, 2)>>, <<"examine">>),
       Object("corridor_cell_C-15_door", "corridor_b", <<Pos(14, 2)>>, <<"examine">>),
       Object("corridor_cell_C-16_door", "corridor_b", <<Pos(17, 2)>>, <<"examine">>),
       Object("corridor_guard_station_door", "corridor_b",
              <<Pos(17, 6), Pos(18, 6)>>, <<"examine">>),
       Object("guard_station_desk", "guard_station_b",
              <<Pos(2, 2), Pos(3, 2), Pos(2, 3), Pos(3, 3)>>,
              <<"examine", "search">>),
       Object("guard_station_chair", "guard_station_b", <<Pos(3, 4)>>,
              <<"examine">>),
       Object("guard_station_locker", "guard_station_b",
              <<Pos(7, 3), Pos(7, 4)>>, <<"examine">>),
       Object("guard_station_flashlight", "guard_station_b", <<Pos(2, 2)>>,
              <<"examine", "take">>) >>

ObjectIds == {INTERACTIVE_OBJECTS[i].id : i \in DOMAIN INTERACTIVE_OBJECTS}

ObjectById(id) ==
    INTERACTIVE_OBJECTS[CHOOSE i \in DOMAIN INTERACTIVE_OBJECTS :
                            INTERACTIVE_OBJECTS[i].id = id]

isAdjacent(pos1, pos2) ==
    LET dx == Abs(pos1.x - pos2.x)
        dy == Abs(pos1.y - pos2.y)
    IN dx <= 1 /\ dy <= 1 /\ ~(dx = 0 /\ dy = 0)

isAdjacentToObject(playerPos, object) ==
    \E k \in DOMAIN object.positions : isAdjacent(playerPos, object.positions[k])

\* Squared distance from the player to the object's nearest tile.
NearestTile2(playerPos, object) ==
    LET d2(k) == (playerPos.x - object.positions[k].x) * (playerPos.x - object.positions[k].x)
               + (playerPos.y - object.positions[k].y) * (playerPos.y - object.positions[k].y)
    IN CHOOSE m \in {d2(k) : k \in DOMAIN object.positions} :
          \A k \in DOMAIN object.positions : m <= d2(k)

\* findClosestObject over getObjectsInRoom(roomId): the id of the first
\* adjacent object, in registry order, whose nearest tile is nearest of all.
findClosestObject(playerPos, roomId) ==
    LET adjacent == {i \in DOMAIN INTERACTIVE_OBJECTS :
                        /\ INTERACTIVE_OBJECTS[i].roomId = roomId
                        /\ isAdjacentToObject(playerPos, INTERACTIVE_OBJECTS[i])}
        best == {i \in adjacent :
                    \A j \in adjacent :
                       NearestTile2(playerPos, INTERACTIVE_OBJECTS[i])
                          <= NearestTile2(playerPos, INTERACTIVE_OBJECTS[j])}
    IN IF adjacent = {} THEN Null
       ELSE INTERACTIVE_OBJECTS[CHOOSE i \in best : \A j \in best : i <= j].id

NoTarget == [kind |-> "none", id |-> Null]

NpcTarget(npcId) == [kind |-> "npc", id |-> npcId]

ObjectTarget(objectId) == [kind |-> "object", id |-> objectId]

(***************************************************************************)
(* The store (store.ts).  A snapshot is a record of the state slices.      *)
(***************************************************************************)
Store ==
    [player |-> player, currentRoom |-> currentRoom, transition |-> transition,
     interaction |-> interaction, inventoryOpen |-> inventoryOpen,
     npcs |-> npcs, dialogue |-> dialogue,
     playerKnowledge |-> playerKnowledge, time |-> time]

NoTime == [day |-> 0, hour |-> 0, minute |-> 0, totalMinutes |-> 0]

NoTransition ==
    [isTransitioning |-> FALSE, phase |-> Null, targetRoom |-> Null,
     targetSpawn |-> Null]

NoDialogue ==
    [isActive |-> FALSE, currentTree |-> Null, currentNode |-> Null,
     npcId |-> Null, selectedResponse |-> 0]

ClosedMenu == [isOpen |-> FALSE, objectId |-> Null]

NoText == [isVisible |-> FALSE, text |-> ""]

InitialStore(registry) ==
    [player |-> [gridPosition |-> cellC14.startPosition, isMoving |-> FALSE,
                 isSneaking |-> FALSE, isHiding |-> FALSE],
     currentRoom |-> cellC14.id,
     transition |-> NoTransition,
     interaction |-> [mode |-> "normal", targetedObject |-> NoTarget,
                      contextMenu |-> ClosedMenu, textDisplay |-> NoText],
     inventoryOpen |-> FALSE,
     npcs |-> registry,
     dialogue |-> NoDialogue,
     playerKnowledge |-> {},
     time |-> [currentTime |-> createInitialTime,
               currentPeriod |-> "early_morning",
               isPaused |-> FALSE,
               timeScale |-> NormalTimeScale,
               isWaiting |-> FALSE,
               waitTargetTime |-> NoTime]]

Step(direction) ==
    CASE direction = "up" -> Pos(0, -1)
      [] direction = "down" -> Pos(0, 1)
      [] direction = "left" -> Pos(-1, 0)
      [] OTHER -> Pos(1, 0)

ExitAt(room, p) ==
    LET hits == {i \in DOMAIN room.exits : room.exits[i].position = p}
    IN IF hits = {} THEN 0 ELSE CHOOSE i \in hits : \A j \in hits : i <= j

startTransition(state, targetRoomId, targetSpawnId) ==
    [state EXCEPT !.transition =
        [isTransitioning |-> TRUE, phase |-> "fadeOut",
         targetRoom |-> targetRoomId, targetSpawn |-> targetSpawnId]]

movePlayer(state, direction) ==
    LET room == ROOMS[state.currentRoom]
        currentPos == state.player.gridPosition
        newPos == Pos(currentPos.x + Step(direction).x,
                      currentPos.y + Step(direction).y)
        exitIndex == ExitAt(room, newPos)
        exit == room.exits[exitIndex]
        moved == [state EXCEPT !.player.gridPosition = newPos,
                               !.player.isMoving = TRUE]
    IN IF state.player.isMoving \/ state.transition.isTransitioning THEN state
       ELSE IF ~InBounds(room, newPos) THEN state
       ELSE IF ~isTileWalkable(TileAt(room, newPos)) THEN state
       ELSE IF exitIndex # 0
       THEN LET shouldBeOpen ==
                    isDoorOpenBySchedule(exit.id, state.time.currentPeriod)
                isUnlocked == exit.state \in {"open", "unlocked"}
            IN IF shouldBeOpen /\ isUnlocked
               THEN startTransition(state, exit.targetRoom, exit.targetSpawn)
               ELSE IF ~shouldBeOpen THEN state
               ELSE moved
       ELSE moved

completePlayerMove(state) == [state EXCEPT !.player.isMoving = FALSE]

changeRoom(state, roomId, spawnId) ==
    IF roomId \notin DOMAIN ROOMS THEN state
    ELSE LET newRoom == ROOMS[roomId]
             hits == {i \in DOMAIN newRoom.spawnPoints :
                         newRoom.spawnPoints[i].id = spawnId}
         IN IF hits = {} THEN state
            ELSE LET spawnPoint ==
                        newRoom.spawnPoints[CHOOSE i \in hits :
                                                \A j \in hits : i <= j]
                 IN [state EXCEPT !.currentRoom = roomId,
                                  !.player.gridPosition = spawnPoint.position,
                                  !.player.isMoving = FALSE]

\* updateTransition at the frame where the running fade has run its full
\* duration (progress 1 on fade out, 0 on fade in).
updateTransition(state) ==
    IF ~state.transition.isTransitioning THEN state
    ELSE IF state.transition.phase = "fadeOut"
    THEN LET changed ==
               IF state.transition.targetRoom # Null
                  /\ state.transition.targetSpawn # Null
               THEN changeRoom(state, state.transition.targetRoom,
                               state.transition.targetSpawn)
               ELSE state
         IN [changed EXCEPT !.transition =
                [state.transition EXCEPT !.phase = "fadeIn"]]
    ELSE IF state.transition.phase = "fadeIn"
    THEN [state EXCEPT !.transition = NoTransition]
    ELSE state

TooFarText == "You're too far away to talk."

OwnCellText == "You can only sleep in your own cell."

TooEarlyText == "It's too early to sleep. Lights out is at 22:00."

\* The result text of an executed object action (executeAction().message
\* and its item variants).
ActionText == "action result"

\* Faulty variant of showText: showing a message ends the running session.
showTextEndsSession(state, text) ==
    [state EXCEPT !.interaction.mode = "text",
                  !.interaction.textDisplay = [isVisible |-> TRUE, text |-> text],
                  !.dialogue = NoDialogue]

showText(state, text) ==
    [state EXCEPT !.interaction.mode = "text",
                  !.interaction.textDisplay = [isVisible |-> TRUE, text |-> text]]

dismissText(state) ==
    [state EXCEPT !.interaction.mode = "normal",
                  !.interaction.textDisplay = NoText]

updateNPC(state, npcId, changes) ==
    IF npcId \notin DOMAIN state.npcs THEN state
    ELSE [state EXCEPT !.npcs[npcId] = Merge(state.npcs[npcId], changes)]

toggleSneak(state) ==
    [state EXCEPT !.player.isSneaking = ~state.player.isSneaking]

startDialogue(state, npcId) ==
    IF npcId \notin DOMAIN state.npcs THEN state
    ELSE
    LET npc == state.npcs[npcId] IN
    IF npc.dialogueTree = Null THEN state
    ELSE IF npc.currentRoom # state.currentRoom
    THEN showText(state, TooFarText)
    ELSE IF ~canTalkToNPC(npc, state.player.gridPosition)
    THEN showText(state, TooFarText)
    ELSE IF ~HasDialogueTree(npc.dialogueTree) THEN state
    ELSE
    LET tree == getDialogueTree(npc.dialogueTree)
        startNodeId ==
            IF npc.talkedTo /\ "greeting_return" \in DOMAIN tree.nodes
            THEN "greeting_return"
            ELSE tree.startNode
    IN IF startNodeId \notin DOMAIN tree.nodes THEN state
       ELSE LET marked == updateNPC(state, npcId, [talkedTo |-> TRUE])
            IN [marked EXCEPT
                  !.dialogue = [isActive |-> TRUE,
                                currentTree |-> tree.id,
                                currentNode |-> startNodeId,
                                npcId |-> npcId,
                                selectedResponse |-> 0],
                  !.interaction = [state.interaction EXCEPT !.mode = "dialogue"]]

\* Faulty variant of closeDialogue: the response cursor is left where it was.
closeDialogueLeavesCursor(state) ==
    [state EXCEPT !.dialogue = [NoDialogue EXCEPT !.selectedResponse =
                                   state.dialogue.selectedResponse],
                  !.interaction.mode = "normal"]

\* Faulty variant of closeDialogue: what the conversation taught is dropped.
closeDialogueForgets(state) ==
    [state EXCEPT !.dialogue = NoDialogue,
                  !.interaction.mode = "normal",
                  !.playerKnowledge = {}]

\* Faulty variant of closeDialogue: the session is cleared, the UI mode is
\* left as it was.
closeDialogueKeepsMode(state) ==
    [state EXCEPT !.dialogue = NoDialogue]

closeDialogue(state) ==
    [state EXCEPT !.dialogue = NoDialogue,
                  !.interaction.mode = "normal"]

\* Faulty variant of navigateDialogueResponses: the cursor stops at the ends
\* of the list.
navigateDialogueResponsesClamped(state, direction) ==
    IF ~state.dialogue.isActive \/ state.dialogue.currentNode = Null THEN state
    ELSE IF state.dialogue.currentTree = Null
            \/ ~HasDialogueTree(state.dialogue.currentTree) THEN state
    ELSE
    LET tree == getDialogueTree(state.dialogue.currentTree) IN
    IF state.dialogue.currentNode \notin DOMAIN tree.nodes THEN state
    ELSE
    LET node == tree.nodes[state.dialogue.currentNode]
        numResponses == Len(node.responses)
        index == state.dialogue.selectedResponse
        newIndex ==
            IF direction = "up"
            THEN (IF index > 0 THEN index - 1 ELSE index)
            ELSE (IF index < numResponses - 1 THEN index + 1 ELSE index)
    IN [state EXCEPT !.dialogue.selectedResponse = newIndex]

navigateDialogueResponses(state, direction) ==
    IF ~state.dialogue.isActive \/ state.dialogue.currentNode = Null THEN state
    ELSE IF state.dialogue.currentTree = Null
            \/ ~HasDialogueTree(state.dialogue.currentTree) THEN state
    ELSE
    LET tree == getDialogueTree(state.dialogue.currentTree) IN
    IF state.dialogue.currentNode \notin DOMAIN tree.nodes THEN state
    ELSE
    LET node == tree.nodes[state.dialogue.currentNode]
        numResponses == Len(node.responses)
        index == state.dialogue.selectedResponse
        newIndex ==
            IF direction = "up"
            THEN (IF index > 0 THEN index - 1 ELSE numResponses - 1)
            ELSE (IF index < numResponses - 1 THEN index + 1 ELSE 0)
    IN [state EXCEPT !.dialogue.selectedResponse = newIndex]

\* One iteration of effects.forEach: `cur` is the store as it stands, `state`
\* the snapshot selectDialogueResponse took on entry.
\* Faulty variant of ApplyEffect: a knowledge token replaces what was known.
ApplyEffectForgetting(cur, state, effect) ==
    IF effect.type = "knowledge" /\ effect.value # Null
    THEN [cur EXCEPT !.playerKnowledge = {effect.value}]
    ELSE cur

ApplyEffect(cur, state, effect) ==
    IF effect.type = "knowledge" /\ effect.value # Null
    THEN [cur EXCEPT !.playerKnowledge = state.playerKnowledge \cup {effect.value}]
    ELSE IF effect.type = "relationship" /\ state.dialogue.npcId # Null
    THEN (IF state.dialogue.npcId \in DOMAIN state.npcs
          THEN updateNPC(cur, state.dialogue.npcId,
                   [relationshipLevel |->
                       state.npcs[state.dialogue.npcId].relationshipLevel
                          + effect.value])
          ELSE cur)
    ELSE IF effect.type = "flag" /\ effect.flagName # Null
            /\ state.dialogue.npcId # Null
    THEN (IF state.dialogue.npcId \in DOMAIN state.npcs
          THEN LET flags == state.npcs[state.dialogue.npcId].flags
               IN updateNPC(cur, state.dialogue.npcId,
                     [flags |->
                        [f \in DOMAIN flags \cup {effect.flagName} |->
                            IF f = effect.flagName THEN TRUE ELSE flags[f]]])
          ELSE cur)
    ELSE cur

RECURSIVE ApplyEffects(_, _, _, _)
ApplyEffects(cur, state, effects, k) ==
    IF k > Len(effects) THEN cur
    ELSE ApplyEffects(ApplyEffect(cur, state, effects[k]), state, effects, k + 1)

\* Faulty variant of selectDialogueResponse: a response without a next node
\* leaves the session open.
selectDialogueResponseStaysOpen(state, responseIndex) ==
    IF ~state.dialogue.isActive \/ state.dialogue.currentNode = Null THEN state
    ELSE IF state.dialogue.currentTree = Null
            \/ ~HasDialogueTree(state.dialogue.currentTree) THEN state
    ELSE
    LET tree == getDialogueTree(state.dialogue.currentTree) IN
    IF state.dialogue.currentNode \notin DOMAIN tree.nodes THEN state
    ELSE
    LET node == tree.nodes[state.dialogue.currentNode] IN
    IF Len(node.responses) = 0 THEN closeDialogue(state)
    ELSE IF responseIndex + 1 \notin DOMAIN node.responses THEN state
    ELSE
    LET response == node.responses[responseIndex + 1]
        afterNode == ApplyEffects(state, state, node.effects, 1)
        afterResponse == ApplyEffects(afterNode, state, response.effects, 1)
    IN IF response.nextNode # Null
       THEN (IF response.nextNode \in DOMAIN tree.nodes
             THEN [afterResponse EXCEPT
                     !.dialogue = [state.dialogue EXCEPT
                                     !.currentNode = response.nextNode,
                                     !.selectedResponse = 0]]
             ELSE closeDialogue(afterResponse))
       ELSE afterResponse

\* Faulty variant of selectDialogueResponse: the node's effects are applied
\* before the index is looked at.
selectDialogueResponseEffectsFirst(state, responseIndex) ==
    IF ~state.dialogue.isActive \/ state.dialogue.currentNode = Null THEN state
    ELSE IF state.dialogue.currentTree = Null
            \/ ~HasDialogueTree(state.dialogue.currentTree) THEN state
    ELSE
    LET tree == getDialogueTree(state.dialogue.currentTree) IN
    IF state.dialogue.currentNode \notin DOMAIN tree.nodes THEN state
    ELSE
    LET node == tree.nodes[state.dialogue.currentNode]
        afterNode == ApplyEffects(state, state, node.effects, 1) IN
    IF Len(node.responses) = 0 THEN closeDialogue(state)
    ELSE IF responseIndex + 1 \notin DOMAIN node.responses THEN afterNode
    ELSE
    LET response == node.responses[responseIndex + 1]
        afterResponse == ApplyEffects(afterNode, state, response.effects, 1)
    IN IF response.nextNode # Null
       THEN (IF response.nextNode \in DOMAIN tree.nodes
             THEN [afterResponse EXCEPT
                     !.dialogue = [state.dialogue EXCEPT
                                     !.currentNode = response.nextNode,
                                     !.selectedResponse = 0]]
             ELSE closeDialogue(afterResponse))
       ELSE closeDialogue(afterResponse)

\* Faulty variant of selectDialogueResponse: the session moves to the node the
\* response names without looking it up in the tree.
selectDialogueResponseUnchecked(state, responseIndex) ==
    IF ~state.dialogue.isActive \/ state.dialogue.currentNode = Null THEN state
    ELSE IF state.dialogue.currentTree = Null
            \/ ~HasDialogueTree(state.dialogue.currentTree) THEN state
    ELSE
    LET tree == getDialogueTree(state.dialogue.currentTree) IN
    IF state.dialogue.currentNode \notin DOMAIN tree.nodes THEN state
    ELSE
    LET node == tree.nodes[state.dialogue.currentNode] IN
    IF Len(node.responses) = 0 THEN closeDialogue(state)
    ELSE IF responseIndex + 1 \notin DOMAIN node.responses THEN state
    ELSE
    LET response == node.responses[responseIndex + 1]
        afterNode == ApplyEffects(state, state, node.effects, 1)
        afterResponse == ApplyEffects(afterNode, state, response.effects, 1)
    IN IF response.nextNode # Null
       THEN [afterResponse EXCEPT
               !.dialogue = [state.dialogue EXCEPT
                               !.currentNode = response.nextNode,
                               !.selectedResponse = 0]]
       ELSE closeDialogue(afterResponse)

selectDialogueResponse(state, responseIndex) ==
    IF ~state.dialogue.isActive \/ state.dialogue.currentNode = Null THEN state
    ELSE IF state.dialogue.currentTree = Null
            \/ ~HasDialogueTree(state.dialogue.currentTree) THEN state
    ELSE
    LET tree == getDialogueTree(state.dialogue.currentTree) IN
    IF state.dialogue.currentNode \notin DOMAIN tree.nodes THEN state
    ELSE
    LET node == tree.nodes[state.dialogue.currentNode] IN
    IF Len(node.responses) = 0 THEN closeDialogue(state)
    ELSE IF responseIndex + 1 \notin DOMAIN node.responses THEN state
    ELSE
    LET response == node.responses[responseIndex + 1]
        afterNode == ApplyEffects(state, state, node.effects, 1)
        afterResponse == ApplyEffects(afterNode, state, response.effects, 1)
    IN IF response.nextNode # Null
       THEN (IF response.nextNode \in DOMAIN tree.nodes
             THEN [afterResponse EXCEPT
                     !.dialogue = [state.dialogue EXCEPT
                                     !.currentNode = response.nextNode,
                                     !.selectedResponse = 0]]
             ELSE closeDialogue(afterResponse))
       ELSE closeDialogue(afterResponse)

\* Faulty variant of UpdateEach: the actors of every room are updated.
RECURSIVE UpdateEachInAnyRoom(_, _, _, _, _)
UpdateEachInAnyRoom(store, updatedNPCs, state, deltaMs, k) ==
    IF k > Len(NpcOrder) THEN [store EXCEPT !.npcs = updatedNPCs]
    ELSE
    LET npcId == NpcOrder[k]
        npc == updatedNPCs[npcId]
    IN
       LET updates == IF npc.currentBehavior = "patrol"
                      THEN updatePatrol(npc, deltaMs)
                      ELSE NoChanges
           nextNPCs == [updatedNPCs EXCEPT ![npcId] = Merge(npc, updates)]
           reacts == /\ npc.type = "guard"
                     /\ ~state.player.isHiding
                     /\ shouldReactToPlayer(npc,
                           calculateDetectionLevel(npc,
                              state.player.gridPosition,
                              state.player.isSneaking,
                              ROOMS[state.currentRoom]))
                     /\ npc.dialogueTree # Null
           nextStore == IF reacts THEN startDialogue(store, npcId) ELSE store
       IN UpdateEachInAnyRoom(nextStore, nextNPCs, state, deltaMs, k + 1)

\* updateNPCs: `store` is the store as it stands (startDialogue writes to
\* it), `updatedNPCs` the local copy that is written back at the end.
RECURSIVE UpdateEach(_, _, _, _, _)
UpdateEach(store, updatedNPCs, state, deltaMs, k) ==
    IF k > Len(NpcOrder) THEN [store EXCEPT !.npcs = updatedNPCs]
    ELSE
    LET npcId == NpcOrder[k]
        npc == updatedNPCs[npcId]
    IN IF npc.currentRoom # state.currentRoom
       THEN UpdateEach(store, updatedNPCs, state, deltaMs, k + 1)
       ELSE
       LET updates == IF npc.currentBehavior = "patrol"
                      THEN updatePatrol(npc, deltaMs)
                      ELSE NoChanges
           nextNPCs == [updatedNPCs EXCEPT ![npcId] = Merge(npc, updates)]
           reacts == /\ npc.type = "guard"
                     /\ ~state.player.isHiding
                     /\ shouldReactToPlayer(npc,
                           calculateDetectionLevel(npc,
                              state.player.gridPosition,
                              state.player.isSneaking,
                              ROOMS[state.currentRoom]))
                     /\ npc.dialogueTree # Null
           nextStore == IF reacts THEN startDialogue(store, npcId) ELSE store
       IN UpdateEach(nextStore, nextNPCs, state, deltaMs, k + 1)

updateNPCs(state, deltaMs) == UpdateEach(state, state.npcs, state, deltaMs, 1)

\* The NPC test reads the static registry NPCS, not the live actor table.
updateTargetedObject(state) ==
    IF state.interaction.mode # "normal" THEN state
    ELSE
    LET playerPos == state.player.gridPosition
        adjacentNPC == getNPCAdjacentToPosition(NPCS, state.currentRoom, playerPos)
        closest == findClosestObject(playerPos, state.currentRoom)
        targetedObject ==
            IF adjacentNPC # Null /\ canTalkToNPC(NPCS[adjacentNPC], playerPos)
            THEN NpcTarget(adjacentNPC)
            ELSE IF closest # Null THEN ObjectTarget(closest)
            ELSE NoTarget
    IN [state EXCEPT !.interaction.targetedObject = targetedObject]

openContextMenu(state) ==
    LET targetedObject == state.interaction.targetedObject IN
    IF state.interaction.mode # "normal" THEN state
    ELSE IF targetedObject = NoTarget THEN state
    ELSE IF targetedObject.kind = "npc"
    THEN startDialogue(state, targetedObject.id)
    ELSE [state EXCEPT !.interaction.mode = "menu",
                       !.interaction.contextMenu =
                           [isOpen |-> TRUE, objectId |-> targetedObject.id]]

closeContextMenu(state) ==
    [state EXCEPT !.interaction.mode = "normal",
                  !.interaction.contextMenu = ClosedMenu]

\* Faulty variant of sleep: the period label is left as it was.
sleepKeepsPeriod(state) ==
    LET currentHour == state.time.currentTime.hour
        currentDay == state.time.currentTime.day
        nextDay == IF currentHour >= 22 \/ currentHour < 6
                   THEN currentDay + 1 ELSE currentDay
        newTime == [day |-> nextDay, hour |-> 6, minute |-> 0,
                    totalMinutes |-> state.time.currentTime.totalMinutes
                                        + 24 * 60 * MilliPerMinute]
    IN IF state.currentRoom # "cell_c14" THEN showText(state, OwnCellText)
       ELSE IF currentHour < 20 /\ currentHour >= 6
       THEN showText(state, TooEarlyText)
       ELSE [state EXCEPT
               !.time = [state.time EXCEPT !.currentTime = newTime],
               !.npcs = [n \in DOMAIN state.npcs |->
                           Merge(state.npcs[n],
                                 updateNPCSchedule(state.npcs[n], "early_morning",
                                                   state.currentRoom))]]

sleep(state) ==
    LET currentHour == state.time.currentTime.hour
        currentDay == state.time.currentTime.day
        nextDay == IF currentHour >= 22 \/ currentHour < 6
                   THEN currentDay + 1 ELSE currentDay
        newTime == [day |-> nextDay, hour |-> 6, minute |-> 0,
                    totalMinutes |-> state.time.currentTime.totalMinutes
                                        + 24 * 60 * MilliPerMinute]
    IN IF state.currentRoom # "cell_c14" THEN showText(state, OwnCellText)
       ELSE IF currentHour < 20 /\ currentHour >= 6
       THEN showText(state, TooEarlyText)
       ELSE [state EXCEPT
               !.time = [state.time EXCEPT !.currentTime = newTime,
                                           !.currentPeriod = "early_morning"],
               !.npcs = [n \in DOMAIN state.npcs |->
                           Merge(state.npcs[n],
                                 updateNPCSchedule(state.npcs[n], "early_morning",
                                                   state.currentRoom))]]

UnavailableText == "You can't do that right now."

\* selectedAction is the action under the menu cursor and available its
\* availability flag (false only for a take of what has been taken).
selectMenuAction(state, selectedAction, available) ==
    IF ~state.interaction.contextMenu.isOpen THEN state
    ELSE IF ~available THEN closeContextMenu(showText(state, UnavailableText))
    ELSE IF state.interaction.targetedObject = NoTarget THEN state
    ELSE IF state.interaction.targetedObject.id = "cell_c14_bed"
            /\ selectedAction = "use"
    THEN sleep(closeContextMenu(state))
    ELSE showText(closeContextMenu(state), ActionText)

openInventory(state) ==
    IF state.interaction.mode # "normal" THEN state
    ELSE [state EXCEPT !.interaction.mode = "inventory",
                       !.inventoryOpen = TRUE]

closeInventory(state) ==
    [state EXCEPT !.interaction.mode = "normal", !.inventoryOpen = FALSE]

\* current.day >= target.day && current.hour >= target.hour &&
\* current.minute >= target.minute
WaitTargetReached(current, target) ==
    /\ current.day >= target.day
    /\ current.hour >= target.hour
    /\ current.minute >= target.minute

\* Faulty variant of updateTime: only pausing holds the clock.
updateTimeInAnyMode(state, deltaTime) ==
    IF state.time.isPaused THEN state
    ELSE LET result == advanceTime(state.time.currentTime, deltaTime,
                                   state.time.timeScale)
         IN [state EXCEPT !.time.currentTime = result.newTime,
                          !.time.currentPeriod = result.newPeriod]

updateTime(state, deltaTime) ==
    IF \/ state.time.isPaused
       \/ state.interaction.mode \in {"inventory", "dialogue", "menu"}
       \/ state.transition.isTransitioning
    THEN state
    ELSE
    LET timeScale == IF state.time.isWaiting THEN WaitTimeScale
                     ELSE state.time.timeScale
        result == advanceTime(state.time.currentTime, deltaTime, timeScale)
        advanced == [state.time EXCEPT !.currentTime = result.newTime,
                                       !.currentPeriod = result.newPeriod]
        waitDone == /\ state.time.isWaiting
                    /\ state.time.waitTargetTime # NoTime
                    /\ WaitTargetReached(result.newTime,
                                         state.time.waitTargetTime)
        newNPCs ==
            IF result.periodChanged /\ result.newPeriod \in PeriodIds
            THEN [n \in DOMAIN state.npcs |->
                    Merge(state.npcs[n],
                          updateNPCSchedule(state.npcs[n], result.newPeriod,
                                            state.currentRoom))]
            ELSE state.npcs
    IN [state EXCEPT
          !.time = IF waitDone
                   THEN [advanced EXCEPT !.isWaiting = FALSE,
                                         !.waitTargetTime = NoTime]
                   ELSE advanced,
          !.npcs = newNPCs]

pauseTime(state) == [state EXCEPT !.time.isPaused = TRUE]

resumeTime(state) == [state EXCEPT !.time.isPaused = FALSE]

\* Faulty variant of startWait: the clock is set to the end of the period.
startWaitSkipsAhead(state) ==
    IF state.time.currentPeriod \notin PeriodIds THEN state
    ELSE [state EXCEPT !.time.currentTime.hour =
                          getPeriod(state.time.currentPeriod).endHour,
                       !.time.currentTime.minute =
                          getPeriod(state.time.currentPeriod).endMinute]

startWait(state) ==
    IF \/ state.interaction.mode # "normal"
       \/ state.transition.isTransitioning
       \/ state.player.isMoving
    THEN state
    ELSE IF state.time.currentPeriod \notin PeriodIds THEN state
    ELSE
    LET currentTime == state.time.currentTime
        currentPeriod == getPeriod(state.time.currentPeriod)
        targetTime ==
            [day |-> IF currentPeriod.endHour < currentTime.hour
                     THEN currentTime.day + 1 ELSE currentTime.day,
             hour |-> currentPeriod.endHour,
             minute |-> currentPeriod.endMinute,
             totalMinutes |-> currentTime.totalMinutes]
    IN [state EXCEPT !.time.isWaiting = TRUE,
                     !.time.waitTargetTime = targetTime]

cancelWait(state) ==
    [state EXCEPT !.time.isWaiting = FALSE, !.time.waitTargetTime = NoTime]

(***************************************************************************)
(* Bounds of the explored behaviours.                                      *)
(***************************************************************************)
\* The player is steered within this many steps (Manhattan distance) of a
\* point where a room is entered.
WalkRadius == 1

\* On a visit the player is steered within this many steps of such a point.
VisitRadius == 4

\* updateTime is called while totalMinutes stays within this many
\* thousandths of a game minute.
MaxTotalMinutes == 900000

\* Frame lengths handed to updateTime (real milliseconds): about seven game
\* hours at the normal scale, exactly seven at the waiting scale.
NormalFrameMs == 1262000

WaitFrameMs == 4200

\* Frame length handed to updateNPCs (milliseconds).
NpcFrameMs == 4000

\* Largest magnitude of an actor's relationshipLevel.
MaxRelationship == 105

Directions == {"up", "down", "left", "right"}

EntryPoints(roomId) ==
    {ROOMS[roomId].startPosition}
       \cup {ROOMS[roomId].spawnPoints[i].position :
                i \in DOMAIN ROOMS[roomId].spawnPoints}

InWalkArea(radius, roomId, p) ==
    \E e \in EntryPoints(roomId) : Abs(p.x - e.x) + Abs(p.y - e.y) <= radius

(***************************************************************************)
(* Actions: one per store operation, as the input manager and the frame    *)
(* loop invoke it.  A call that leaves the store as it is takes no step.   *)
(***************************************************************************)
Do(name, new) ==
    /\ new # Store
    /\ op' = name
    /\ player' = new.player
    /\ currentRoom' = new.currentRoom
    /\ transition' = new.transition
    /\ interaction' = new.interaction
    /\ inventoryOpen' = new.inventoryOpen
    /\ npcs' = new.npcs
    /\ dialogue' = new.dialogue
    /\ playerKnowledge' = new.playerKnowledge
    /\ time' = new.time
    /\ NPCS' = NPCS

\* Frame loop: a held direction key starts a move when the player is neither
\* moving nor in a room transition, whatever the UI mode.
MovePlayer ==
    \E direction \in Directions :
       /\ ~player.isMoving
       /\ ~transition.isTransitioning
       /\ InWalkArea(WalkRadius, currentRoom,
                     Pos(player.gridPosition.x + Step(direction).x,
                         player.gridPosition.y + Step(direction).y))
       /\ Do("movePlayer", movePlayer(Store, direction))

\* Frame loop: the move animation ends.
CompletePlayerMove ==
    /\ player.isMoving
    /\ Do("completePlayerMove", updateTargetedObject(completePlayerMove(Store)))

UpdateTransition ==
    /\ transition.isTransitioning
    /\ Do("updateTransition", updateTransition(Store))

\* Frame loop: every frame outside moves and transitions.
UpdateTargetedObject ==
    /\ ~player.isMoving
    /\ ~transition.isTransitioning
    /\ Do("updateTargetedObject", updateTargetedObject(Store))

\* Interact key: handled outside text, menu and inventory modes.
OpenContextMenu ==
    /\ interaction.mode \notin {"text", "menu", "inventory"}
    /\ Do("openContextMenu", openContextMenu(Store))

\* Interact key, pressed while an actor is the targeted object.
TalkToActor ==
    /\ interaction.mode \notin {"text", "menu", "inventory"}
    /\ interaction.targetedObject.kind = "npc"
    /\ Do("openContextMenu", openContextMenu(Store))

CloseContextMenu ==
    /\ interaction.mode = "menu"
    /\ Do("closeContextMenu", closeContextMenu(Store))

SelectMenuAction ==
    /\ interaction.mode = "menu"
    /\ interaction.contextMenu.objectId \in ObjectIds
    /\ \E k \in DOMAIN ObjectById(interaction.contextMenu.objectId).actions :
          LET selectedAction ==
                 ObjectById(interaction.contextMenu.objectId).actions[k]
          IN \E available \in IF selectedAction = "take" THEN BOOLEAN ELSE {TRUE} :
                Do("selectMenuAction",
                   selectMenuAction(Store, selectedAction, available))

DismissText ==
    /\ interaction.mode = "text"
    /\ Do("dismissText", dismissText(Store))

OpenInventory ==
    /\ interaction.mode = "normal"
    /\ Do("openInventory", openInventory(Store))

CloseInventory ==
    /\ interaction.mode = "inventory"
    /\ Do("closeInventory", closeInventory(Store))

ToggleSneak ==
    /\ interaction.mode = "normal"
    /\ Do("toggleSneak", toggleSneak(Store))

UpdateNPCs ==
    /\ updateNPCs(Store, NpcFrameMs) # Store
    /\ Do("updateNPCs", updateNPCs(Store, NpcFrameMs))

NavigateDialogueResponses ==
    \E direction \in {"up", "down"} :
       /\ navigateDialogueResponses(Store, direction) # Store
       /\ Do("navigateDialogueResponses",
             navigateDialogueResponses(Store, direction))

\* The response index handed over is any index, one past the last included;
\* the conversation is carried on while the actor's relationshipLevel stays
\* within MaxRelationship.
SelectDialogueResponse ==
    \E responseIndex \in 0..3 :
       LET new == selectDialogueResponse(Store, responseIndex)
       IN /\ \A n \in DOMAIN new.npcs :
                Abs(new.npcs[n].relationshipLevel) <= MaxRelationship
          /\ Do("selectDialogueResponse", new)

CloseDialogue ==
    /\ dialogue.isActive
    /\ Do("closeDialogue", closeDialogue(Store))

UpdateTime ==
    /\ LET frame == IF time.isWaiting THEN WaitFrameMs ELSE NormalFrameMs
           new == updateTime(Store, frame)
       IN /\ new.time.currentTime.totalMinutes <= MaxTotalMinutes
          /\ Do("updateTime", new)

PauseTime ==
    /\ pauseTime(Store) # Store
    /\ Do("pauseTime", pauseTime(Store))

ResumeTime ==
    /\ resumeTime(Store) # Store
    /\ Do("resumeTime", resumeTime(Store))

StartWait ==
    /\ startWait(Store) # Store
    /\ Do("startWait", startWait(Store))

CancelWait ==
    /\ cancelWait(Store) # Store
    /\ Do("cancelWait", cancelWait(Store))

SetStore(s) ==
    /\ player = s.player
    /\ currentRoom = s.currentRoom
    /\ transition = s.transition
    /\ interaction = s.interaction
    /\ inventoryOpen = s.inventoryOpen
    /\ npcs = s.npcs
    /\ dialogue = s.dialogue
    /\ playerKnowledge = s.playerKnowledge
    /\ time = s.time

Init ==
    /\ NPCS = ShippedNPCS
    /\ SetStore(InitialStore(ShippedNPCS))
    /\ op = "create"

Next ==
    \/ MovePlayer
    \/ CompletePlayerMove
    \/ UpdateTransition
    \/ UpdateTargetedObject
    \/ OpenContextMenu
    \/ CloseContextMenu
    \/ SelectMenuAction
    \/ DismissText
    \/ OpenInventory
    \/ CloseInventory
    \/ ToggleSneak
    \/ UpdateNPCs
    \/ NavigateDialogueResponses
    \/ SelectDialogueResponse
    \/ CloseDialogue
    \/ UpdateTime
    \/ PauseTime
    \/ ResumeTime
    \/ StartWait
    \/ CancelWait

Spec == Init /\ [][Next]_vars

(***************************************************************************)
(* The patrol: the shipped registry, the player walking between the cell   *)
(* and the corridor and being confronted by the guard while the clock runs *)
(* at the normal scale.                                                    *)
(***************************************************************************)
NextPatrol ==
    \/ MovePlayer
    \/ CompletePlayerMove
    \/ UpdateTransition
    \/ UpdateTargetedObject
    \/ DismissText
    \/ UpdateNPCs
    \/ CloseDialogue
    \/ UpdateTime

SpecPatrol == Init /\ [][NextPatrol]_vars

(***************************************************************************)
(* The daily routine: the player walking, using the object menus and the   *)
(* bed while the clock runs; the actors are moved by their schedules only. *)
(***************************************************************************)
NextRoutine ==
    \/ MovePlayer
    \/ CompletePlayerMove
    \/ UpdateTransition
    \/ UpdateTargetedObject
    \/ OpenContextMenu
    \/ CloseContextMenu
    \/ SelectMenuAction
    \/ DismissText
    \/ UpdateTime

SpecRoutine == Init /\ [][NextRoutine]_vars

(***************************************************************************)
(* The controls: pausing, waiting, sneaking and the inventory screen, the  *)
(* player standing in the cell.                                            *)
(***************************************************************************)
NextControls ==
    \/ OpenInventory
    \/ CloseInventory
    \/ ToggleSneak
    \/ UpdateTime
    \/ PauseTime
    \/ ResumeTime
    \/ StartWait
    \/ CancelWait

SpecControls == Init /\ [][NextControls]_vars

(***************************************************************************)
(* A visit: the player has walked from the cell through the corridor into  *)
(* the room of an actor, the old timer's cell C-12 or the guard station,   *)
(* and talks to the actor where the registry places it; the clock stands   *)
(* still.  The registry is the shipped one or, in the guard station, the   *)
(* shipped one with the guard in a condition that forbids a conversation.  *)
(***************************************************************************)
GuardVariants ==
    {guardMartinez,
     [guardMartinez EXCEPT !.isConscious = FALSE],
     [guardMartinez EXCEPT !.isAlive = FALSE],
     [guardMartinez EXCEPT !.currentBehavior = "chase"],
     [guardMartinez EXCEPT !.currentBehavior = "alert"],
     [guardMartinez EXCEPT !.currentBehavior = "conversation"]}

VisitRegistries ==
    {[n \in NpcIds |-> IF n = "guard_martinez" THEN g ELSE oldTimer] :
        g \in GuardVariants}

\* The store once the transition into roomId from the corridor has ended.
Entered(registry, roomId) ==
    changeRoom(InitialStore(registry), roomId, "from_corridor")

InitVisit ==
    /\ NPCS \in VisitRegistries
    /\ \E roomId \in {cellC12.id, guardStation.id} :
          /\ roomId = cellC12.id => NPCS = ShippedNPCS
          /\ SetStore(Entered(NPCS, roomId))
    /\ op = "create"

\* The player walks between conversations, staying in the room and within
\* VisitRadius steps of a point where it is entered.
Walk ==
    /\ ~dialogue.isActive
    /\ interaction.mode = "normal"
    /\ \E direction \in Directions :
          LET newPos == Pos(player.gridPosition.x + Step(direction).x,
                            player.gridPosition.y + Step(direction).y)
          IN /\ ~player.isMoving
             /\ InWalkArea(VisitRadius, currentRoom, newPos)
             /\ ExitAt(ROOMS[currentRoom], newPos) = 0
             /\ Do("movePlayer", movePlayer(Store, direction))

NextVisit ==
    \/ Walk
    \/ CompletePlayerMove
    \/ UpdateTargetedObject
    \/ TalkToActor
    \/ DismissText
    \/ UpdateNPCs
    \/ NavigateDialogueResponses
    \/ SelectDialogueResponse
    \/ CloseDialogue

SpecVisit == InitVisit /\ [][NextVisit]_vars

(***************************************************************************)
(* Properties of the dialogue session.                                     *)
(***************************************************************************)
\* Longest run of selections followed from a node.
MaxPathLen == 8

CurrentTree == getDialogueTree(dialogue.currentTree)

CurrentNode == CurrentTree.nodes[dialogue.currentNode]

\* The runs of selections that lead from node nodeId to a terminal node and
\* resolve it, or end with a response that names no node of the tree; the
\* selection that resolves a terminal node carries index 0.
RECURSIVE CompletePaths(_, _, _)
CompletePaths(tree, nodeId, fuel) ==
    LET node == tree.nodes[nodeId] IN
    IF fuel = 0 THEN {}
    ELSE IF Len(node.responses) = 0 THEN {<<0>>}
    ELSE UNION {
           LET next == node.responses[i].nextNode
           IN IF next = Null \/ next \notin DOMAIN tree.nodes
              THEN {<<i - 1>>}
              ELSE {<<i - 1>> \o rest :
                       rest \in CompletePaths(tree, next, fuel - 1)}
           : i \in DOMAIN node.responses}

\* The store after selectDialogueResponse has been called with each index of
\* path in turn.
RECURSIVE FollowPath(_, _)
FollowPath(state, path) ==
    IF path = <<>> THEN state
    ELSE FollowPath(selectDialogueResponse(state, Head(path)), Tail(path))

\* The effects carried by the nodes visited and the responses chosen on path,
\* the terminal node's included.
RECURSIVE PathEffects(_, _, _)
PathEffects(tree, nodeId, path) ==
    LET node == tree.nodes[nodeId] IN
    IF Len(node.responses) = 0 \/ path = <<>> THEN node.effects
    ELSE LET response == node.responses[Head(path) + 1]
         IN node.effects \o response.effects \o
               (IF response.nextNode = Null
                   \/ response.nextNode \notin DOMAIN tree.nodes
                THEN <<>>
                ELSE PathEffects(tree, response.nextNode, Tail(path)))

RECURSIVE RelationshipSum(_)
RelationshipSum(effects) ==
    IF effects = <<>> THEN 0
    ELSE (IF Head(effects).type = "relationship" THEN Head(effects).value ELSE 0)
            + RelationshipSum(Tail(effects))

\* C1: from every state with an active session, every run of selections that
\* reaches a terminal node and resolves it ends with no active session (not
\* active, no tree, node or actor) and the UI mode normal.
C1_SelectionsEndClosed ==
    dialogue.isActive =>
       \A path \in CompletePaths(CurrentTree, dialogue.currentNode, MaxPathLen) :
          LET end == FollowPath(Store, path)
          IN /\ end.dialogue = NoDialogue
             /\ end.interaction.mode = "normal"

\* A conversation with the old timer has been carried to its last node and
\* that node resolved.
C1_Witness ==
    /\ op = "selectDialogueResponse"
    /\ ~dialogue.isActive
    /\ npcs["old_timer"].talkedTo
    /\ interaction.mode = "normal"

\* C2: from every state with an active session, after every run of selections
\* to a terminal node and to closure each knowledge token carried on the run
\* is in playerKnowledge, each flag is true on the actor, and the actor's
\* relationshipLevel has changed by the sum of the deltas on the run.
C2_PathEffectsApplied ==
    dialogue.isActive =>
       \A path \in CompletePaths(CurrentTree, dialogue.currentNode, MaxPathLen) :
          LET end == FollowPath(Store, path)
              effects == PathEffects(CurrentTree, dialogue.currentNode, path)
              actor == end.npcs[dialogue.npcId]
          IN /\ \A k \in DOMAIN effects :
                   /\ effects[k].type = "knowledge"
                         => effects[k].value \in end.playerKnowledge
                   /\ effects[k].type = "flag"
                         => /\ effects[k].flagName \in DOMAIN actor.flags
                            /\ actor.flags[effects[k].flagName]
             /\ actor.relationshipLevel =
                   npcs[dialogue.npcId].relationshipLevel
                      + RelationshipSum(effects)

\* The session that a step opens: the step is a player-initiated start or a
\* per-tick NPC update and leaves a session that was not there before it.
SessionOpened ==
    /\ op' \in {"openContextMenu", "updateNPCs"}
    /\ dialogue'.isActive
    /\ dialogue' # dialogue

\* C3: whenever a step opens a session, the session's actor is, in the state
\* the step starts from, in the player's room, one tile orthogonally next to
\* the player, conscious, alive, has a dialogue tree and is not in chase
\* behavior; player-initiated starts and guard detection alike.
C3_OpenedOnlyWhenTalkable ==
    [][SessionOpened =>
         LET npc == npcs[dialogue'.npcId]
             dx == Abs(npc.position.x - player.gridPosition.x)
             dy == Abs(npc.position.y - player.gridPosition.y)
         IN /\ npc.currentRoom = currentRoom
            /\ dx + dy = 1
            /\ npc.isConscious
            /\ npc.isAlive
            /\ npc.dialogueTree # Null
            /\ HasDialogueTree(npc.dialogueTree)
            /\ npc.currentBehavior # "chase"]_vars

\* The guard has detected the player and opened a session.
C3_Witness ==
    /\ op = "updateNPCs"
    /\ dialogue.isActive
    /\ dialogue.npcId = "guard_martinez"
    /\ dialogue.currentNode = "confrontation_restricted"

\* The reasons for which a start is turned down.
NotTalkable(npcId) ==
    LET npc == npcs[npcId]
        dx == Abs(npc.position.x - player.gridPosition.x)
        dy == Abs(npc.position.y - player.gridPosition.y)
    IN \/ npc.currentRoom # currentRoom
       \/ dx + dy # 1
       \/ ~npc.isConscious
       \/ ~npc.isAlive
       \/ npc.currentBehavior = "chase"

\* C4: startDialogue for an actor that is in another room, not adjacent,
\* unconscious, dead or in chase leaves the session, every actor,
\* playerKnowledge and the rest of the store as they are; it only puts the
\* message on display.
C4_RejectedStartKeepsWorld ==
    \A npcId \in DOMAIN npcs :
       NotTalkable(npcId) =>
          LET new == startDialogue(Store, npcId)
          IN /\ new.dialogue = dialogue
             /\ new.npcs = npcs
             /\ new.playerKnowledge = playerKnowledge
             /\ new.player = player
             /\ new.currentRoom = currentRoom
             /\ new.transition = transition
             /\ new.inventoryOpen = inventoryOpen
             /\ new.time = time
             /\ new.interaction.targetedObject = interaction.targetedObject
             /\ new.interaction.contextMenu = interaction.contextMenu
             /\ new.interaction.textDisplay =
                    [isVisible |-> TRUE, text |-> TooFarText]

\* The guard's attempt to confront the player has been turned down.
C4_Witness ==
    /\ op = "updateNPCs"
    /\ NotTalkable("guard_martinez")
    /\ interaction.textDisplay = [isVisible |-> TRUE, text |-> TooFarText]
    /\ ~dialogue.isActive
    /\ ~npcs["guard_martinez"].talkedTo

\* C5: the session is all or nothing: isActive holds exactly when
\* currentTree, currentNode and npcId are all set, and when it does not hold
\* the three are null and selectedResponse is 0.
C5_SessionAllOrNothing ==
    /\ dialogue.isActive <=> /\ dialogue.currentTree # Null
                             /\ dialogue.currentNode # Null
                             /\ dialogue.npcId # Null
    /\ ~dialogue.isActive => /\ dialogue.currentTree = Null
                             /\ dialogue.currentNode = Null
                             /\ dialogue.npcId = Null
                             /\ dialogue.selectedResponse = 0

\* A session has been cancelled at its first node.
C5_Witness ==
    /\ op = "closeDialogue"
    /\ ~dialogue.isActive
    /\ \E n \in DOMAIN npcs : npcs[n].talkedTo

\* A step that closes the session without applying anything: closeDialogue
\* called on its own, or from selectDialogueResponse on a terminal node.
ClosingStep ==
    \/ op' = "closeDialogue"
    \/ /\ op' = "selectDialogueResponse"
       /\ dialogue.isActive
       /\ Len(CurrentNode.responses) = 0

\* C6: a step that closes the session leaves playerKnowledge and every
\* actor's relationshipLevel, flags and talkedTo as they were.
C6_CloseKeepsEffects ==
    [][ClosingStep =>
         /\ playerKnowledge' = playerKnowledge
         /\ \A n \in DOMAIN npcs :
               /\ npcs'[n].relationshipLevel = npcs[n].relationshipLevel
               /\ npcs'[n].flags = npcs[n].flags
               /\ npcs'[n].talkedTo = npcs[n].talkedTo]_vars

\* A session has been cancelled after its selections had taught the player
\* about the vents.
C6_Witness ==
    /\ op = "closeDialogue"
    /\ "vent_system_hint" \in playerKnowledge
    /\ npcs["old_timer"].flags["told_about_vents"]

(***************************************************************************)
(* Properties of the schedule, the clock and the modal lock.               *)
(***************************************************************************)
\* C7: in every step in which an actor's currentRoom changes, neither the
\* room it leaves nor the room it arrives in is the player's current room.
C7_NoVisibleRelocation ==
    [][\A n \in DOMAIN npcs :
          npcs'[n].currentRoom # npcs[n].currentRoom =>
             /\ npcs[n].currentRoom \notin {currentRoom, currentRoom'}
             /\ npcs'[n].currentRoom \notin {currentRoom, currentRoom'}]_vars

\* A tick that began a period of patrol has moved the guard from the guard
\* station to the corridor while the player was in the cell.
C7_Witness ==
    /\ op = "updateTime"
    /\ currentRoom = "cell_c14"
    /\ npcs["guard_martinez"].currentRoom = "corridor_b"
    /\ npcs["guard_martinez"].position = getSpawnPositionForRoom("corridor_b")

\* The store as it stands and as the controls leave it when used now.
TickStates ==
    {Store, pauseTime(Store), openInventory(Store), openContextMenu(Store),
     startWait(Store)}

ClockHeld(s) ==
    \/ s.time.isPaused
    \/ s.interaction.mode \in {"inventory", "dialogue", "menu"}
    \/ s.transition.isTransitioning

\* C8: updateTime leaves the time state as it is when time is paused, the UI
\* mode is inventory, dialogue or menu, or a room transition is running;
\* otherwise, a displayed text message included, totalMinutes grows by the
\* elapsed real time times the scale in force.
C8_ClockHeldOrAdvanced ==
    \A s \in TickStates :
       LET deltaTime == IF s.time.isWaiting THEN WaitFrameMs ELSE NormalFrameMs
           scale == IF s.time.isWaiting THEN WaitTimeScale ELSE NormalTimeScale
           new == updateTime(s, deltaTime)
       IN IF ClockHeld(s)
          THEN new.time = s.time
          ELSE new.time.currentTime.totalMinutes =
                  s.time.currentTime.totalMinutes
                     + (deltaTime * scale) \div MilliPerMinute

\* The clock has ticked while a text message was on display.
C8_Witness ==
    /\ op = "updateTime"
    /\ interaction.mode = "text"
    /\ interaction.textDisplay.isVisible
    /\ time.currentTime.totalMinutes > 0

\* C9: while a session is active no movePlayer call changes the player's
\* grid position.
C9_SessionLocksMovement ==
    [][(dialogue.isActive /\ op' = "movePlayer") =>
          player'.gridPosition = player.gridPosition]_vars

\* The stores that the operations other than updateTime, sleep and
\* selectMenuAction produce from the current one.
OtherOperations ==
    {completePlayerMove(Store), updateTransition(Store),
     updateTargetedObject(Store), openContextMenu(Store),
     closeContextMenu(Store), showText(Store, ActionText), dismissText(Store),
     openInventory(Store), closeInventory(Store), toggleSneak(Store),
     updateNPCs(Store, NpcFrameMs), closeDialogue(Store), pauseTime(Store),
     resumeTime(Store), startWait(Store), cancelWait(Store)}
       \cup {movePlayer(Store, direction) : direction \in Directions}
       \cup {startDialogue(Store, npcId) : npcId \in NpcIds}
       \cup {navigateDialogueResponses(Store, direction) :
                direction \in {"up", "down"}}
       \cup {selectDialogueResponse(Store, responseIndex) :
                responseIndex \in 0..3}

MenuActions ==
    UNION {{INTERACTIVE_OBJECTS[i].actions[k] :
               k \in DOMAIN INTERACTIVE_OBJECTS[i].actions} :
             i \in DOMAIN INTERACTIVE_OBJECTS}

\* C10 as stated: no operation other than updateTime changes
\* time.currentTime.
C10_OnlyClockTick ==
    \A new \in OtherOperations \cup {sleep(Store)}
                \cup {selectMenuAction(Store, a, available) :
                         a \in MenuActions, available \in BOOLEAN} :
       new.time.currentTime = time.currentTime

\* C10: no operation other than updateTime and sleep changes
\* time.currentTime, and selectMenuAction changes it only by calling sleep
\* for the use action of the bed.
C10_OnlyClockTickAndSleep ==
    /\ \A new \in OtherOperations : new.time.currentTime = time.currentTime
    /\ \A a \in MenuActions : \A available \in BOOLEAN :
          LET new == selectMenuAction(Store, a, available)
          IN new.time.currentTime # time.currentTime =>
                /\ interaction.targetedObject.id = "cell_c14_bed"
                /\ a = "use"
                /\ new = sleep(closeContextMenu(Store))

\* The player has slept in the bed until the morning.
C10_Witness ==
    /\ op = "selectMenuAction"
    /\ time.currentTime.hour = 6
    /\ time.currentTime.totalMinutes >= 24 * 60 * MilliPerMinute

(***************************************************************************)
(* A talk: the player has walked into cell C-12 and talks to the old       *)
(* timer, whom the registry gives a relationshipLevel at either end or in  *)
(* the middle of its documented range, and its own tree or the tree of the *)
(* two-response case.                                                      *)
(***************************************************************************)
\* relationshipLevel: -100 to 100 (NPCData).
MinRelationshipLevel == -100

MaxRelationshipLevel == 100

TalkRegistries ==
    {[ShippedNPCS EXCEPT !["old_timer"].relationshipLevel = level,
                         !["old_timer"].dialogueTree = treeId] :
        level \in {MinRelationshipLevel, 0, MaxRelationshipLevel},
        treeId \in {oldTimerDialogue.id, twoResponseDialogue.id,
                    danglingResponseDialogue.id}}

InitTalk ==
    /\ NPCS \in TalkRegistries
    /\ SetStore(Entered(NPCS, cellC12.id))
    /\ op = "create"

NextTalk ==
    \/ Walk
    \/ CompletePlayerMove
    \/ TalkToActor
    \/ NavigateDialogueResponses
    \/ SelectDialogueResponse
    \/ CloseDialogue

SpecTalk == InitTalk /\ [][NextTalk]_vars

(***************************************************************************)
(* The clock on its own: advanceTime applied to a GameTime, from any hour  *)
(* and half hour of the first day, by frames of thirty and a half and of   *)
(* sixty real seconds, at the scale of one game minute per real second and *)
(* at the scale the store starts with.                                     *)
(***************************************************************************)
\* Frame lengths handed to advanceTime (real milliseconds).
ShortFrameMs == 30500

LongFrameMs == 60000

\* advanceTime is called while totalMinutes stays within this many
\* thousandths of a game minute.
MaxClockMinutes == 61000

\* timeScale 1: one game minute per real second, in thousandths.
UnitTimeScale == 1000

ClockFrames == {ShortFrameMs, LongFrameMs}

ClockScales == {UnitTimeScale, NormalTimeScale}

InitClock ==
    /\ NPCS = ShippedNPCS
    /\ \E hour \in 0..23 : \E minute \in {0, 30} :
          SetStore([InitialStore(NPCS) EXCEPT
                      !.time.currentTime =
                          [day |-> 1, hour |-> hour, minute |-> minute,
                           totalMinutes |-> 0],
                      !.time.currentPeriod = getPeriodForTime(hour, minute)])
    /\ op = "create"

AdvanceTime ==
    \E realDeltaMs \in ClockFrames : \E timeScale \in ClockScales :
       LET result == advanceTime(time.currentTime, realDeltaMs, timeScale)
       IN /\ result.newTime.totalMinutes <= MaxClockMinutes
          /\ Do("advanceTime",
                [Store EXCEPT !.time.currentTime = result.newTime,
                              !.time.currentPeriod = result.newPeriod])

NextClock == AdvanceTime

SpecClock == InitClock /\ [][NextClock]_vars

(***************************************************************************)
(* Properties of the clock, the relationship values and the patrol.        *)
(***************************************************************************)
\* C11: every time from 22:00 through 05:59 lies in the wrap-around period;
\* from 23:30 an advance of 60 real seconds at scale 1 gives 00:30 on the
\* next day in the same period with periodChanged false; and no advance that
\* starts and ends in that period reports a period change.
C11_WrapPeriodNoChange ==
    /\ \A hour \in 0..23 : \A minute \in 0..59 :
          (hour >= 22 \/ hour < 6) => getPeriodForTime(hour, minute) = "lockdown"
    /\ LET result == advanceTime([time.currentTime EXCEPT !.hour = 23,
                                                         !.minute = 30],
                                 60000, UnitTimeScale)
       IN /\ result.newTime.day = time.currentTime.day + 1
          /\ result.newTime.hour = 0
          /\ result.newTime.minute = 30
          /\ result.newPeriod = "lockdown"
          /\ ~result.periodChanged
    /\ \A realDeltaMs \in ClockFrames : \A timeScale \in ClockScales :
          LET result == advanceTime(time.currentTime, realDeltaMs, timeScale)
          IN (time.currentPeriod = "lockdown" /\ result.newPeriod = "lockdown")
                => ~result.periodChanged

\* The clock has been advanced from 23:30 to 00:30 of the next day.
C11_Witness ==
    /\ op = "advanceTime"
    /\ time.currentTime = [day |-> 2, hour |-> 0, minute |-> 30,
                           totalMinutes |-> 60 * MilliPerMinute]
    /\ time.currentPeriod = "lockdown"

\* C12: an interval split into two consecutive ticks at a fixed scale gives
\* the day, hour and minute that a single advance over the whole interval
\* gives.
C12_SplitEqualsWhole ==
    \A first \in ClockFrames : \A second \in ClockFrames :
       \A timeScale \in ClockScales :
          LET split == advanceTime(
                          advanceTime(time.currentTime, first, timeScale).newTime,
                          second, timeScale).newTime
              whole == advanceTime(time.currentTime, first + second,
                                   timeScale).newTime
          IN /\ split.day = whole.day
             /\ split.hour = whole.hour
             /\ split.minute = whole.minute

C14_MovingIffTarget ==
    \A n \in DOMAIN npcs :
       npcs[n].isMoving <=> npcs[n].targetPosition # NoPosition

\* The schedule has turned the guard idle in the middle of a move.
C14_Witness ==
    /\ op = "updateTime"
    /\ npcs["guard_martinez"].currentBehavior = "idle"
    /\ npcs["guard_martinez"].isMoving
    /\ npcs["guard_martinez"].targetPosition # NoPosition

\* C15: every step leaves in playerKnowledge each token that was in it.
C15_KnowledgeAppendOnly ==
    [][playerKnowledge \subseteq playerKnowledge']_vars

\* A selection has added a token to one learnt in an earlier selection.
C15_Witness ==
    /\ op = "selectDialogueResponse"
    /\ {"vent_system_hint", "guard_station_tools"} \subseteq playerKnowledge

\* C16: a step that opens a session, at the player's request or from guard
\* detection inside updateNPCs, leaves the session's actor with talkedTo
\* true, and no step turns an actor's talkedTo from true to false.
C16_TalkedToStays ==
    [][/\ SessionOpened => npcs'[dialogue'.npcId].talkedTo
       /\ \A n \in DOMAIN npcs : npcs[n].talkedTo => npcs'[n].talkedTo]_vars

(***************************************************************************)
(* A lap: the breakfast period has begun and the guard patrols the         *)
(* corridor, standing where the schedule has put it (the corridor's spawn  *)
(* position) or at the waypoint of its current index; the player has left  *)
(* the cell and walks in the corridor while the frame loop runs the        *)
(* patrol.  The clock stands still.                                        *)
(***************************************************************************)
BreakfastTime ==
    [day |-> 1, hour |-> 7, minute |-> 0, totalMinutes |-> 60 * MilliPerMinute]

\* The guard patrolling the corridor with the given index, at the waypoint
\* of that index (as updatePatrol leaves it on arrival) or at the corridor's
\* spawn position (as updateNPCSchedule leaves it).
OnPatrol(index, atWaypoint) ==
    LET point == guardMartinez.patrolRoute[index + 1]
        changes ==
            IF atWaypoint
            THEN [currentRoom |-> "corridor_b",
                  currentBehavior |-> "patrol",
                  currentPatrolIndex |-> index,
                  position |-> Pos(point.col, point.row),
                  pixelPosition |-> gridToPixel(Pos(point.col, point.row)),
                  direction |-> point.direction,
                  waitTimer |-> 0]
            ELSE [currentRoom |-> "corridor_b",
                  currentBehavior |-> "patrol",
                  currentPatrolIndex |-> index,
                  position |-> getSpawnPositionForRoom("corridor_b"),
                  pixelPosition |->
                     gridToPixel(getSpawnPositionForRoom("corridor_b"))]
    IN Merge(guardMartinez, changes)

LapRegistries ==
    {[ShippedNPCS EXCEPT !["guard_martinez"] = OnPatrol(index, atWaypoint)] :
        index \in 0..(Len(guardMartinez.patrolRoute) - 1),
        atWaypoint \in BOOLEAN}

InitLap ==
    /\ NPCS \in LapRegistries
    /\ LET period == getPeriodForTime(BreakfastTime.hour, BreakfastTime.minute)
           left == changeRoom(InitialStore(NPCS), corridor.id, "from_cell_c14")
       IN /\ guardMartinez.schedule[period] = Entry("patrol", corridor.id)
          /\ SetStore([left EXCEPT !.time.currentTime = BreakfastTime,
                                   !.time.currentPeriod = period])
    /\ op = "create"

NextLap ==
    \/ Walk
    \/ CompletePlayerMove
    \/ UpdateNPCs
    \/ DismissText
    \/ CloseDialogue

SpecLap == InitLap /\ [][NextLap]_vars

\* Frames of updatePatrol allowed for one route to be walked round.
MaxLapFrames == 24

\* The actor after `cycles` more arrivals at a waypoint, updatePatrol being
\* applied frame after frame as updateNPCs applies it; `left` counts the
\* arrivals still missing when `frames` frames have been used.
RECURSIVE PatrolFrames(_, _, _, _)
PatrolFrames(npc, deltaMs, cycles, frames) ==
    IF cycles = 0 \/ frames = 0 THEN [npc |-> npc, left |-> cycles]
    ELSE LET next == Merge(npc, updatePatrol(npc, deltaMs))
         IN PatrolFrames(next, deltaMs,
                         IF npc.isMoving /\ ~next.isMoving
                         THEN cycles - 1 ELSE cycles,
                         frames - 1)

\* The actor once it has run as many wait+move cycles as its route is long.
AfterLap(npc) ==
    PatrolFrames(npc, NpcFrameMs, Len(npc.patrolRoute), MaxLapFrames)

\* The actor stands still between two wait+move cycles of its patrol.
StartsCycle(npc) ==
    /\ npc.currentBehavior = "patrol"
    /\ Len(npc.patrolRoute) > 0
    /\ ~npc.isMoving

AtWaypoint(npc) ==
    LET point == npc.patrolRoute[npc.currentPatrolIndex + 1]
    IN npc.position = Pos(point.col, point.row)

Closed(npc) ==
    /\ AfterLap(npc).left = 0
    /\ AfterLap(npc).npc.currentPatrolIndex = npc.currentPatrolIndex
    /\ AfterLap(npc).npc.position = npc.position

\* C17 as stated: every actor that stands still on patrol and runs as many
\* wait+move cycles as its route has waypoints is back at the waypoint index
\* and at the position it started from.
C17_LapClosed ==
    \A n \in DOMAIN npcs : StartsCycle(npcs[n]) => Closed(npcs[n])

\* C17: an actor that stands still on patrol at the waypoint of its current
\* index and runs as many wait+move cycles as its route has waypoints is back
\* at that index and at that position.
C17_LapClosedFromWaypoint ==
    \A n \in DOMAIN npcs :
       StartsCycle(npcs[n]) /\ AtWaypoint(npcs[n]) => Closed(npcs[n])

C17_Witness ==
    /\ op = "updateNPCs"
    /\ StartsCycle(npcs["guard_martinez"])
    /\ AtWaypoint(npcs["guard_martinez"])
    /\ npcs["guard_martinez"] # NPCS["guard_martinez"]
    /\ Closed(npcs["guard_martinez"])

(***************************************************************************)
(* A watch: the recreation period has begun while the player was in the    *)
(* corridor, so the actor on the corridor route has turned idle where it   *)
(* stood: at a waypoint, facing as the waypoint says, or at the corridor's *)
(* spawn position, facing as the registry says.  The registry gives the    *)
(* actor any of the three kinds and any facing.  The player walks and      *)
(* sneaks in the                                                           *)
(* corridor while the frame loop runs the actor's perception.              *)
(***************************************************************************)
RecreationTime ==
    [day |-> 1, hour |-> 16, minute |-> 0, totalMinutes |-> 600 * MilliPerMinute]

NPCTypes == {"guard", "inmate", "staff"}

Watching(npcType, index, atWaypoint, facing) ==
    [OnPatrol(index, atWaypoint) EXCEPT
        !.type = npcType,
        !.currentBehavior = "idle",
        !.direction = IF atWaypoint THEN @ ELSE facing]

WatchRegistries ==
    {[ShippedNPCS EXCEPT !["guard_martinez"] =
                            Watching(npcType, index, atWaypoint, facing)] :
        npcType \in NPCTypes,
        index \in 0..(Len(guardMartinez.patrolRoute) - 1),
        atWaypoint \in BOOLEAN,
        facing \in Directions}

InitWatch ==
    /\ NPCS \in WatchRegistries
    /\ LET period == getPeriodForTime(RecreationTime.hour, RecreationTime.minute)
           left == changeRoom(InitialStore(NPCS), corridor.id, "from_cell_c12")
       IN /\ guardMartinez.schedule[period].behavior = "idle"
          /\ SetStore([left EXCEPT !.time.currentTime = RecreationTime,
                                   !.time.currentPeriod = period])
    /\ op = "create"

NextWatch ==
    \/ Walk
    \/ CompletePlayerMove
    \/ ToggleSneak
    \/ UpdateNPCs
    \/ DismissText
    \/ CloseDialogue

SpecWatch == InitWatch /\ [][NextWatch]_vars

\* The detection level updateNPCs computes for actor n in the current state.
DetectionOf(n) ==
    calculateDetectionLevel(npcs[n], player.gridPosition, player.isSneaking,
                            ROOMS[currentRoom])

\* The actors updateNPCs looks at: those in the player's room.
InRoom == {n \in DOMAIN npcs : npcs[n].currentRoom = currentRoom}

\* Detection levels around the threshold, and the ends of the scale.
ProbeLevels ==
    {0, ReactionThreshold - 1, ReactionThreshold, ReactionThreshold + 1,
     DetectionOne}

\* C18: an actor reacts to a detection level exactly when it is a guard and
\* the level is above 0.5, at the level of the current frame and at the
\* levels around the threshold; and a step of updateNPCs that opens a
\* session opens it with a guard.
C18_ReactIffGuardAboveHalf ==
    [][/\ \A n \in InRoom : \A level \in ProbeLevels \cup {DetectionOf(n)} :
             shouldReactToPlayer(npcs[n], level)
                <=> (npcs[n].type = "guard" /\ level > ReactionThreshold)
       /\ SessionOpened /\ op' = "updateNPCs"
             => npcs[dialogue'.npcId].type = "guard"]_vars

\* An inmate or staff actor has the player right before it, above the
\* threshold, and the frame loop has run without a session.
C18_Witness ==
    /\ \E n \in InRoom : /\ npcs[n].type # "guard"
                         /\ DetectionOf(n) > ReactionThreshold
                         /\ isNPCAdjacentToPlayer(npcs[n], player.gridPosition)
    /\ ~dialogue.isActive
    /\ op = "completePlayerMove"

\* The player is on the row or column of actor n, k tiles away.
StraightAhead(n, k) ==
    LET dx == player.gridPosition.x - npcs[n].position.x
        dy == player.gridPosition.y - npcs[n].position.y
    IN (dx = 0 \/ dy = 0) /\ Abs(dx) + Abs(dy) = k

\* C19: for an actor with visionRange 5 and visionAngle 90 that has the
\* player straight ahead in its cone, k tiles away, the level is the
\* multiplier (0.6 sneaking, else 1) times (1 - k/5): 0.24 and no reaction for
\* a sneaking player 3 tiles away, 0.8 and a reaction for a player 1 tile
\* away who does not sneak.
C19_LevelStraightAhead ==
    \A n \in InRoom : \A k \in 0..5 :
       /\ npcs[n].visionRange = 5
       /\ npcs[n].visionAngle = 90
       /\ npcs[n].type = "guard"
       /\ StraightAhead(n, k)
       /\ isPlayerInVisionCone(npcs[n], player.gridPosition, ROOMS[currentRoom])
       => /\ 5 * DetectionOf(n)
                = (IF player.isSneaking THEN 6 ELSE 10) * 1000 * (5 - k)
          /\ player.isSneaking /\ k = 3
                => /\ DetectionOf(n) = 2400
                   /\ ~shouldReactToPlayer(npcs[n], DetectionOf(n))
          /\ ~player.isSneaking /\ k = 1
                => /\ DetectionOf(n) = 8000
                   /\ shouldReactToPlayer(npcs[n], DetectionOf(n))

C19_Witness ==
    /\ op = "completePlayerMove"
    /\ player.isSneaking
    /\ npcs["guard_martinez"].type = "guard"
    /\ StraightAhead("guard_martinez", 3)
    /\ isPlayerInVisionCone(npcs["guard_martinez"], player.gridPosition,
                            ROOMS[currentRoom])
    /\ DetectionOf("guard_martinez") = 2400

\* The levels for actor n at the player's position, sneaking and not.
LevelAt(n, sneaking) ==
    calculateDetectionLevel(npcs[n], player.gridPosition, sneaking,
                            ROOMS[currentRoom])

\* C20 as stated: at every position the level for a sneaking player is
\* strictly below the level for one who does not sneak, in the ratio 0.6.
C20_SneakingStrictlyLess ==
    \A n \in InRoom :
       /\ LevelAt(n, TRUE) < LevelAt(n, FALSE)
       /\ 10 * LevelAt(n, TRUE) = 6 * LevelAt(n, FALSE)

\* C20: at every position the level for a sneaking player is 0.6 times the
\* level for one who does not sneak, strictly below it wherever the latter
\* is above zero.
C20_SneakingSixTenths ==
    \A n \in InRoom :
       /\ 10 * LevelAt(n, TRUE) = 6 * LevelAt(n, FALSE)
       /\ LevelAt(n, FALSE) > 0 => LevelAt(n, TRUE) < LevelAt(n, FALSE)

C20_Witness ==
    /\ op = "toggleSneak"
    /\ player.isSneaking
    /\ \E n \in InRoom : /\ DetectionOf(n) > 0
                         /\ DetectionOf(n) < LevelAt(n, FALSE)

(***************************************************************************)
(* Properties of the vision cone, the line of sight and the session.       *)
(***************************************************************************)
\* The cell k steps from actor n in direction d.
CellFrom(n, d, k) ==
    Pos(npcs[n].position.x + k * Step(d).x, npcs[n].position.y + k * Step(d).y)

Opposite(d) ==
    CASE d = "up" -> "down"
      [] d = "down" -> "up"
      [] d = "left" -> "right"
      [] OTHER -> "left"

\* A cell of the room where the player can stand.
Standable(room, p) == InBounds(room, p) /\ isTileWalkable(TileAt(room, p))

\* C21: an actor with a 90-degree cone sees the player on every cell where
\* the player can stand straight ahead of it, up to visionRange cells away,
\* and on no cell straight behind it, whichever way it faces.
C21_AheadSeenBehindUnseen ==
    \A n \in InRoom :
       npcs[n].visionAngle = 90 /\ npcs[n].visionRange > 0 =>
          \A k \in 1..npcs[n].visionRange :
             LET room == ROOMS[currentRoom]
                 ahead == CellFrom(n, npcs[n].direction, k)
                 behind == CellFrom(n, Opposite(npcs[n].direction), k)
             IN /\ Standable(room, ahead)
                     => isPlayerInVisionCone(npcs[n], ahead, room)
                /\ ~isPlayerInVisionCone(npcs[n], behind, room)

\* The player has walked to the cell visionRange cells behind an actor that
\* faces along the corridor.
C21_Witness ==
    /\ op = "completePlayerMove"
    /\ \E n \in InRoom :
          /\ npcs[n].visionAngle = 90
          /\ player.gridPosition
                = CellFrom(n, Opposite(npcs[n].direction), npcs[n].visionRange)
          /\ ~isPlayerInVisionCone(npcs[n], player.gridPosition,
                                   ROOMS[currentRoom])
          /\ Standable(ROOMS[currentRoom],
                       CellFrom(n, npcs[n].direction, npcs[n].visionRange))

\* Cells probed around a cell: those at most SightRadius columns and rows
\* away.
SightRadius == 2

Around(p) ==
    {Pos(p.x + i, p.y + j) : i \in -SightRadius..SightRadius,
                             j \in -SightRadius..SightRadius}

\* The cells a sight line is probed from: where the player and the actors of
\* the room stand.
SightOrigins == {player.gridPosition} \cup {npcs[n].position : n \in InRoom}

\* A cell that stops a sight line.
Blocked(room, c) == ~InBounds(room, c) \/ TileAt(room, c) = W

\* The cells of the rectangle spanned by two cells.
Box(from, to) ==
    {Pos(x, y) : x \in Min2(from.x, to.x)..Max2(from.x, to.x),
                 y \in Min2(from.y, to.y)..Max2(from.y, to.y)}

\* Fractions <<n, d>> with d > 0.
Less(a, b) == a[1] * b[2] < b[1] * a[2]

\* For the segment p0 + t * d, the open interval of t in which the
\* coordinate lies within half a cell of c.
Span(p0, d, c) ==
    LET a == 2 * (c - p0)
    IN IF d > 0 THEN [lo |-> <<a - 1, 2 * d>>, hi |-> <<a + 1, 2 * d>>]
       ELSE IF d < 0
       THEN [lo |-> <<-a - 1, -2 * d>>, hi |-> <<-a + 1, -2 * d>>]
       ELSE IF a = 0 THEN [lo |-> <<-1, 1>>, hi |-> <<2, 1>>]
       ELSE [lo |-> <<2, 1>>, hi |-> <<-1, 1>>]

\* The straight segment between the centres of two cells passes through the
\* inside of cell c.
Crosses(from, to, c) ==
    LET sx == Span(from.x, to.x - from.x, c.x)
        sy == Span(from.y, to.y - from.y, c.y)
        lo == IF Less(sx.lo, sy.lo) THEN sy.lo ELSE sx.lo
        hi == IF Less(sx.hi, sy.hi) THEN sx.hi ELSE sy.hi
    IN Less(lo, hi) /\ Less(lo, <<1, 1>>) /\ Less(<<0, 1>>, hi)

\* The cells hasLineOfSight samples: one per step along the longer axis.
Sampled(from, to) ==
    LET dx == to.x - from.x
        dy == to.y - from.y
        distance == Max2(Abs(dx), Abs(dy))
    IN IF distance = 0 THEN {from}
       ELSE {Pos(from.x + RoundDiv(dx * i, distance),
                 from.y + RoundDiv(dy * i, distance)) : i \in 0..distance}

\* Horizontal, vertical or diagonal.
Aligned(from, to) ==
    \/ to.x = from.x
    \/ to.y = from.y
    \/ Abs(to.x - from.x) = Abs(to.y - from.y)

TwoResponseCase(a, b) ==
    /\ dialogue.isActive
    /\ Len(CurrentNode.responses) = 2
    /\ {a, b} = {0, 1}
    /\ CurrentNode.responses[a + 1].nextNode = Null
    /\ CurrentNode.responses[b + 1].nextNode \in DOMAIN CurrentTree.nodes
    /\ Len(CurrentTree.nodes[CurrentNode.responses[b + 1].nextNode].responses) = 0

Closed_(state) ==
    /\ state.dialogue = NoDialogue
    /\ state.interaction.mode = "normal"

\* C23 as stated: in the two-response case the session is closed after
\* selecting a and closed after selecting b.
C23_BothSelectionsClose ==
    \A a, b \in {0, 1} :
       TwoResponseCase(a, b) =>
          /\ Closed_(selectDialogueResponse(Store, a))
          /\ Closed_(selectDialogueResponse(Store, b))

\* C23: in the two-response case the session is closed after selecting a;
\* after selecting b it is at the node without responses, and closed after
\* the selection that follows, whatever its index.
C23_CloseAtOnceOrAtLastNode ==
    \A a, b \in {0, 1} :
       TwoResponseCase(a, b) =>
          /\ Closed_(selectDialogueResponse(Store, a))
          /\ LET atLast == selectDialogueResponse(Store, b)
             IN /\ atLast.dialogue =
                      [dialogue EXCEPT
                         !.currentNode = CurrentNode.responses[b + 1].nextNode,
                         !.selectedResponse = 0]
                /\ \A index \in 0..3 :
                      Closed_(selectDialogueResponse(atLast, index))

\* The response without a next node has been selected in the two-response
\* case and the session is closed.
C23_Witness ==
    /\ op = "selectDialogueResponse"
    /\ NPCS["old_timer"].dialogueTree = twoResponseDialogue.id
    /\ npcs["old_timer"].talkedTo
    /\ Closed_(Store)
    /\ isNPCAdjacentToPlayer(npcs["old_timer"], player.gridPosition)

(***************************************************************************)
(* A wait: the player stands in the cell, the clock has reached a full     *)
(* hour of the first day and the actors are where their schedules put      *)
(* them; the player waits for the end of the period, or not, while the     *)
(* clock ticks by short and by long frames.                                *)
(***************************************************************************)
\* Frames of a wait: six tenths of a second (one game hour at the wait
\* scale) and WaitFrameMs.
BriefWaitFrameMs == 600

\* The clock is followed for two days.
MaxWaitMinutes == 2880000

FirstHour == createInitialTime.hour

\* The store when the clock has reached hour:00 of the first day.
AtHour(hour) ==
    LET period == getPeriodForTime(hour, 0)
        initial == InitialStore(ShippedNPCS)
    IN [initial EXCEPT
          !.time.currentTime =
             [day |-> 1, hour |-> hour, minute |-> 0,
              totalMinutes |-> (hour - FirstHour) * 60 * MilliPerMinute],
          !.time.currentPeriod = period,
          !.npcs = [n \in DOMAIN ShippedNPCS |->
                      Merge(ShippedNPCS[n],
                            updateNPCSchedule(ShippedNPCS[n], period,
                                              initial.currentRoom))]]

InitWait ==
    /\ NPCS = ShippedNPCS
    /\ \E hour \in FirstHour..23 : SetStore(AtHour(hour))
    /\ op = "create"

\* Frame loop: the clock tick, by a frame of either length during a wait.
Tick ==
    \E frame \in IF time.isWaiting THEN {BriefWaitFrameMs, WaitFrameMs}
                 ELSE {NormalFrameMs} :
       LET new == updateTime(Store, frame)
       IN /\ new.time.currentTime.totalMinutes <= MaxWaitMinutes
          /\ Do("updateTime", new)

NextWait ==
    \/ Tick
    \/ StartWait
    \/ CancelWait

SpecWait == InitWait /\ [][NextWait]_vars

(***************************************************************************)
(* Properties of the wait, the schedule and the interaction prompt.        *)
(***************************************************************************)
\* The calendar position in minutes.
Chrono(t) == (t.day * 24 + t.hour) * 60 + t.minute

\* C24: a clock tick during a wait ends the wait (isWaiting false, target
\* cleared) exactly when the time it results in is at or after the target in
\* time order, so the wait ends on the first such tick, whatever the frame.
C24_WaitEndsInTimeOrder ==
    [][op' = "updateTime" /\ time.isWaiting =>
         IF Chrono(time'.currentTime) >= Chrono(time.waitTargetTime)
         THEN ~time'.isWaiting /\ time'.waitTargetTime = NoTime
         ELSE time'.isWaiting /\ time'.waitTargetTime = time.waitTargetTime]_vars

\* C25: a per-tick NPC update during an active session leaves the session's
\* actor, node and response cursor as they are, also when a guard in the
\* room detects the player.
C25_UpdateKeepsSession ==
    [][op' = "updateNPCs" /\ dialogue.isActive =>
         /\ dialogue'.npcId = dialogue.npcId
         /\ dialogue'.currentNode = dialogue.currentNode
         /\ dialogue'.selectedResponse = dialogue.selectedResponse]_vars

\* The room the schedule names for actor n in the current period.
ScheduledRoom(state, n) ==
    state.npcs[n].schedule[state.time.currentPeriod].room

\* Actor n is not in the room its schedule names, and neither that room nor
\* the actor's room is the player's.
RelocationDue(n) ==
    /\ ScheduledRoom(Store, n) # npcs[n].currentRoom
    /\ npcs[n].currentRoom # currentRoom
    /\ ScheduledRoom(Store, n) # currentRoom

\* The clock is not held.
ClockRuns ==
    /\ ~time.isPaused
    /\ interaction.mode \notin {"inventory", "dialogue", "menu"}
    /\ ~transition.isTransitioning

\* C26: a relocation that was blocked is only deferred: when neither the
\* actor's room nor the scheduled room is the player's, the next clock tick
\* finds the actor in the room its schedule names, period change or not.
C26_DeferredRelocationResumes ==
    \A n \in DOMAIN npcs :
       RelocationDue(n) /\ ClockRuns =>
          LET new == updateTime(Store, NpcFrameMs)
          IN new.npcs[n].currentRoom = ScheduledRoom(new, n)

(***************************************************************************)
(* The guard's post: the player has entered the guard station in the early *)
(* morning and moves about it while the clock and the actors are updated.  *)
(***************************************************************************)
InitPost ==
    /\ NPCS = ShippedNPCS
    /\ SetStore(Entered(NPCS, guardStation.id))
    /\ op = "create"

NextPost ==
    \/ Walk
    \/ CompletePlayerMove
    \/ UpdateTargetedObject
    \/ UpdateNPCs
    \/ UpdateTime
    \/ DismissText
    \/ CloseDialogue

SpecPost == InitPost /\ [][NextPost]_vars

\* C27: every actor's grid position lies inside the bounds of the room the
\* actor is in, also for an actor that patrols in the room it could not
\* leave.
C27_ActorsInsideRoom ==
    \A n \in DOMAIN npcs :
       npcs[n].currentRoom \in DOMAIN ROOMS =>
          InBounds(ROOMS[npcs[n].currentRoom], npcs[n].position)

\* The live actor n is in the player's room, next to the player and talkable.
LiveTalkable(n) ==
    /\ n \in DOMAIN npcs
    /\ npcs[n].currentRoom = currentRoom
    /\ canTalkToNPC(npcs[n], player.gridPosition)

\* C28: after the prompt is refreshed in normal mode it names an NPC exactly
\* when a live actor is next to the player and talkable, and the actor named
\* is such an actor.
C28_PromptMatchesLiveActors ==
    [][op' = "updateTargetedObject" /\ interaction.mode = "normal" =>
         LET target == interaction'.targetedObject
         IN /\ target # NoTarget /\ target.kind = "npc" => LiveTalkable(target.id)
            /\ (\E n \in DOMAIN npcs : LiveTalkable(n)) =>
                  target # NoTarget /\ target.kind = "npc"]_vars

\* C29: no step moves the calendar position (day, hour, minute) backward, and
\* no step lowers totalMinutes, whether it is a clock tick, a wait or a
\* sleep.
C29_CalendarNeverGoesBack ==
    [][/\ Chrono(time'.currentTime) >= Chrono(time.currentTime)
       /\ time'.currentTime.totalMinutes >= time.currentTime.totalMinutes]_vars

\* The actor n patrols in the player's room and is at rest.
Resting(n) ==
    /\ npcs[n].currentRoom = currentRoom
    /\ npcs[n].currentBehavior = "patrol"
    /\ Len(npcs[n].patrolRoute) > 0
    /\ ~npcs[n].isMoving

\* The time actor n has waited (0 when waitTimer was never set) and the time
\* its current waypoint asks for, in milliseconds.
Waited(n) == IF npcs[n].waitTimer = Undefined THEN 0 ELSE npcs[n].waitTimer

WaitAsked(n) == npcs[n].patrolRoute[npcs[n].currentPatrolIndex + 1].wait * 1000

\* C30: a patrolling actor at rest does not start early: while waitTimer is
\* below the waypoint's wait a tick only adds the frame length to waitTimer,
\* and once it has reached the wait a tick moves patrolIndex to
\* (patrolIndex + 1) mod length, aims at that waypoint, sets waitTimer to 0
\* and sets isMoving.
C30_NoEarlyStart ==
    [][op' = "updateNPCs" =>
         \A n \in DOMAIN npcs :
            Resting(n) =>
               LET next == (npcs[n].currentPatrolIndex + 1) % Len(npcs[n].patrolRoute)
                   point == npcs[n].patrolRoute[next + 1]
               IN IF Waited(n) < WaitAsked(n)
                  THEN npcs'[n] = [npcs[n] EXCEPT !.waitTimer = Waited(n) + NpcFrameMs]
                  ELSE /\ npcs'[n].currentPatrolIndex = next
                       /\ npcs'[n].targetPosition = Pos(point.col, point.row)
                       /\ npcs'[n].waitTimer = 0
                       /\ npcs'[n].isMoving
                       /\ npcs'[n].position = npcs[n].position]_vars

\* A tick has just started the guard from one waypoint to the other after the
\* wait there.
C30_Witness ==
    LET g == npcs["guard_martinez"]
        from == g.patrolRoute[1]
    IN /\ op = "updateNPCs"
       /\ g.isMoving /\ g.waitTimer = 0 /\ g.currentPatrolIndex = 1
       /\ g.position = Pos(from.col, from.row)
       /\ g.targetPosition = Pos(g.patrolRoute[2].col, g.patrolRoute[2].row)

DetectsAfterMove(n) ==
    /\ npcs[n].currentRoom = currentRoom
    /\ npcs[n].type = "guard"
    /\ npcs[n].dialogueTree # Null
    /\ ~player.isHiding
    /\ shouldReactToPlayer(npcs'[n],
          calculateDetectionLevel(npcs'[n], player.gridPosition,
                                  player.isSneaking, ROOMS[currentRoom]))

\* C32: within one actor update the movement comes before the perception: a
\* guard's reaction in a tick (a session opened or the refusal text shown)
\* happens exactly when the guard detects the player from the position and
\* facing it has after that tick's patrol step.
C32_PerceptionAfterMovement ==
    [][op' = "updateNPCs" /\ interaction.mode = "normal" =>
         ((interaction' # interaction) <=>
             \E n \in DOMAIN npcs : DetectsAfterMove(n))]_vars

\* The nodes of the running session's tree, and the responses of its node.
SessionNodes == getDialogueTree(dialogue.currentTree).nodes

SessionResponses == SessionNodes[dialogue.currentNode].responses

\* C33: a running session names a node of its tree; selecting a response of
\* a node that has responses moves the session to the response's next node
\* with the cursor at 0 when that node is named and is in the tree, and
\* closes the session otherwise.
C33_SelectMovesOrCloses ==
    dialogue.isActive =>
       /\ dialogue.currentNode \in DOMAIN SessionNodes
       /\ \A i \in DOMAIN SessionResponses :
             LET next == SessionResponses[i].nextNode
                 new == selectDialogueResponse(Store, i - 1)
             IN IF next # Null /\ next \in DOMAIN SessionNodes
                THEN /\ new.dialogue.isActive
                     /\ new.dialogue.currentNode = next
                     /\ new.dialogue.selectedResponse = 0
                ELSE ~new.dialogue.isActive

\* The response that names a missing node has been selected, and the session
\* is closed.
C33_Witness ==
    /\ NPCS["old_timer"].dialogueTree = danglingResponseDialogue.id
    /\ op = "selectDialogueResponse"
    /\ ~dialogue.isActive

\* C34: while a session runs, selectedResponse is an index into the current
\* node's responses (from 0, below their number), or 0 when the node has
\* none.
C34_CursorWithinResponses ==
    dialogue.isActive /\ dialogue.currentNode \in DOMAIN SessionNodes =>
       IF Len(SessionResponses) = 0
       THEN dialogue.selectedResponse = 0
       ELSE /\ dialogue.selectedResponse >= 0
            /\ dialogue.selectedResponse < Len(SessionResponses)

\* navigateDialogueResponses applied k times in one direction.
RECURSIVE Navigated(_, _, _)
Navigated(state, direction, k) ==
    IF k = 0 THEN state
    ELSE Navigated(navigateDialogueResponses(state, direction), direction, k - 1)

\* C35: on a node with n >= 1 responses and the cursor at i, 'down' puts the
\* cursor at (i + 1) mod n, 'up' at (i - 1 + n) mod n, and n moves in one
\* direction bring it back to i.
C35_NavigationWraps ==
    dialogue.isActive /\ dialogue.currentNode \in DOMAIN SessionNodes
                      /\ Len(SessionResponses) >= 1 =>
       LET n == Len(SessionResponses)
           i == dialogue.selectedResponse
       IN /\ navigateDialogueResponses(Store, "down").dialogue.selectedResponse
                = (i + 1) % n
          /\ navigateDialogueResponses(Store, "up").dialogue.selectedResponse
                = (i - 1 + n) % n
          /\ \A direction \in {"up", "down"} :
                Navigated(Store, direction, n).dialogue.selectedResponse = i

\* The cursor has been moved to the last of three or more responses.
C35_Witness ==
    /\ op = "navigateDialogueResponses"
    /\ dialogue.isActive
    /\ Len(SessionResponses) >= 3
    /\ dialogue.selectedResponse = Len(SessionResponses) - 1

\* C36: the UI mode is 'dialogue' exactly when a session is active.
C36_DialogueModeIffSession ==
    (interaction.mode = "dialogue") <=> dialogue.isActive

\* Indexes tried beyond the end of a response list.
ExtraIndexes == 2

\* C37: selecting an index beyond the responses of a node that has responses
\* changes nothing: the session, the actors and what the player knows stay,
\* and no effect of the node is applied.
C37_IndexBeyondListIgnored ==
    dialogue.isActive /\ dialogue.currentNode \in DOMAIN SessionNodes
                      /\ Len(SessionResponses) >= 1 =>
       \A k \in 1..ExtraIndexes :
          selectDialogueResponse(Store, Len(SessionResponses) + k - 1) = Store

\* The session is at a node that has responses and effects of its own.
C37_Witness ==
    /\ dialogue.isActive
    /\ dialogue.currentNode \in DOMAIN SessionNodes
    /\ Len(SessionResponses) >= 1
    /\ Len(SessionNodes[dialogue.currentNode].effects) >= 1
    /\ op = "selectDialogueResponse"

\* C38: the per-tick actor update leaves every field of every actor outside
\* the player's room as it is: such an actor neither waits, moves nor
\* perceives.
C38_OtherRoomsUntouched ==
    \A n \in DOMAIN npcs :
       npcs[n].currentRoom # currentRoom =>
          updateNPCs(Store, NpcFrameMs).npcs[n] = npcs[n]

\* The guard is on patrol in the corridor while the player is in the cell.
C38_Witness ==
    /\ currentRoom = "cell_c14"
    /\ npcs["guard_martinez"].currentRoom = "corridor_b"
    /\ npcs["guard_martinez"].currentBehavior = "patrol"
    /\ npcs["guard_martinez"].waitTimer # Undefined

====
